---- MODULE Spec2Model ----
(***************************************************************************)
(* Model of parimalpate123/issue-fix-action.                               *)
(*                                                                         *)
(* Three state machines share the variables of this module:                *)
(*   Spec        the issue-agent flow: main -> generate_fix ->             *)
(*               invoke_model_with_tools (the tool-use loop) ->            *)
(*               create_pr_with_fix                                        *)
(*   ApplySpec   the patch applicator, PRCreator._apply_changes and        *)
(*               FixGenerator._apply_changes_for_simulation                *)
(*   SandboxSpec concurrent BuildRunner.build / TestRunner.run_tests calls *)
(* Each specification leaves the variables of the other two untouched.     *)
(***************************************************************************)
EXTENDS Integers, Sequences, FiniteSets, TLC

VARIABLES
    \* ---- issue-agent flow and tool-use loop
    pc,             \* position of main / generate_fix / invoke_model_with_tools
    skip_pr,        \* args.skip_pr, drawn where main reads it
    iteration,      \* number of agent calls made by invoke_model_with_tools
    result,         \* last agent output (bedrock.py `result`)
    messages,       \* the conversation: its length, the tool_use ids that have
                    \* no tool_result yet, the role of its last message
    tool_results,   \* tool results collected for the current turn
    last_outcome,   \* what happened in the tool dispatched last in this turn
    validation,     \* verdict of the most recent validator run of this request
    fix_result,     \* what generate_fix returns
    pr_result,      \* what create_pr_with_fix returns
    \* ---- patch applicator
    apc,            \* "input", then "simulated", then "applied"
    current_content,\* the file content read from the repository, or None
    changes,        \* the ordered list of edits
    new_content,    \* result of PRCreator._apply_changes
    simulated,      \* result of FixGenerator._apply_changes_for_simulation
    \* ---- sandbox executor
    calls,          \* per call: its position, file set, sandbox directory
    fs,             \* the file system: location -> call that wrote it last
    dirs,           \* sandbox directory name -> call whose directory it is
    site_packages,  \* the call that installed into the shared interpreter
                    \* environment last
    \* ---- dependency checker
    dpc,            \* "input", then "checked" or "skipped"
    language,       \* the language argument
    code_stmts,     \* the import statements the code file consists of
    package_manifest, \* the package manifest, or none
    missing,        \* result of DependencyChecker.check_dependencies
    tool_result,    \* result of the check_dependencies tool of _execute_tool
    \* ---- syntax validator
    spc,            \* "input", then "validated", then "reported"
    validated_path, \* the path of the file to validate
    parser_outcome, \* what the parser of the detected language does
    syntax_result,  \* result of SyntaxValidator.validate
    report,         \* the list _run_validation_checks puts the file on
    \* ---- one build / run_tests call, step by step
    rpc,            \* "detect", "install", "run", then "returned"
    runner_op,      \* "build" or "run_tests"
    runner_files,   \* the `files` argument
    given_command,  \* whether build_command / test_command was passed
    command,        \* the command in effect after detection
    install_outcome, \* what _install_dependencies met
    spawned,        \* the processes started so far, in order
    run_result,     \* the dict the call returns
    \* ---- one FixGenerator serving several requests
    cpc,            \* "ready" between requests, "tools" inside generate_fix
    request,        \* number of generate_fix calls started on the object
    package_manifest_cache, \* self.package_manifest_cache: language -> manifest
    cache_reads,    \* the manifests the check_dependencies tool calls looked up
    \* ---- test summary
    tpc,            \* "input", then "summarized"
    test_report,    \* what the test run printed (stdout + stderr)
    summary,        \* result of TestRunner._parse_test_summary
    \* ---- BedrockClient.invoke_model
    bpc,            \* "loop" inside the for loop, then "returned" or "raised"
    retry_params,   \* max_retries, initial_delay, max_delay of the call
    attempt,        \* the loop variable
    delay,          \* the local variable `delay`
    call_log,       \* what each call of the model ended with, in order
    sleeps,         \* the arguments of the time.sleep calls, in order
    raised_error    \* the error code of the exception invoke_model raised

loopVars  == <<pc, skip_pr, iteration, result, messages, tool_results,
               last_outcome, validation, fix_result, pr_result>>
applyVars == <<apc, current_content, changes, new_content, simulated>>
sandboxVars == <<calls, fs, dirs, site_packages>>
depVars == <<dpc, language, code_stmts, package_manifest, missing, tool_result>>
syntaxVars == <<spc, validated_path, parser_outcome, syntax_result, report>>
runnerVars == <<rpc, runner_op, runner_files, given_command, command,
                install_outcome, spawned, run_result>>
cacheVars == <<cpc, request, package_manifest_cache, cache_reads>>
summaryVars == <<tpc, test_report, summary>>
retryVars == <<bpc, retry_params, attempt, delay, call_log, sleeps, raised_error>>
laterVars == <<cacheVars, summaryVars, retryVars>>
olderVars == <<loopVars, applyVars, sandboxVars, depVars, syntaxVars, runnerVars>>
vars == <<olderVars, laterVars>>

(***************************************************************************)
(* Bounds of the model.                                                    *)
(***************************************************************************)
MaxToolUses == 2        \* tool_use blocks in one agent output
MaxContentLen == 3      \* characters of a file content
MaxChanges == 2         \* edits in one change list
MaxCalls == 2           \* concurrent build / run_tests calls
MaxRequests == 2        \* generate_fix calls on one FixGenerator
MaxCountDigits == 2     \* digits of a test count
MaxRetryLimit == 5      \* largest max_retries argument of invoke_model

(***************************************************************************)
(* Program constants.                                                      *)
(***************************************************************************)
max_tool_iterations == 15   \* fix_generator.py:263
NormalizedPrefixLen == 50   \* pr_creator.py:222, old_normalized[:50]
ImportWindow == 5           \* pr_creator.py:241, new_lines[:5]
SimulationMinLines == 10    \* fix_generator.py:757, len(new_lines) > 10
BuildTimeout == 120         \* build_runner.py:68
TestTimeout == 180          \* test_runner.py:70

(***************************************************************************)
(* The issue-agent flow and the tool-use loop.                             *)
(***************************************************************************)
\* VALIDATION_TOOLS: the tools offered to the agent.
VALIDATION_TOOLS == {"validate_syntax", "check_dependencies", "build_code", "run_tests"}

\* Names an agent may put in a tool_use block: a declared tool or anything else.
RequestedNames == VALIDATION_TOOLS \cup {"unknown_tool"}

\* stop_reason values of an agent output.
StopReasons == {"tool_use", "end_turn", "max_tokens"}

\* The first text block of an agent output: none, a parsable JSON fix, or prose.
\* Only get_response_text reads it, so it is drawn where that is called.
TextKinds == {"none", "json", "prose"}

\* What happens inside a dispatched tool: the validator returns a verdict, the
\* input lacks a required key (KeyError), or the validator raises.
ToolOutcomes(tool_name) ==
    IF tool_name \in VALIDATION_TOOLS
    THEN {"passed", "failed", "skipped", "missing_field", "raises"}
    ELSE {"unknown"}

ErrorOutcomes == {"missing_field", "raises", "unknown"}

\* The tool_use blocks of the agent's turn number it: each has a name and a
\* unique id.
ToolUseLists ==
    UNION { [1..n -> RequestedNames] : n \in 0..MaxToolUses }

ToolUseBlocks(it, names) ==
    [k \in 1..Len(names) |-> [name |-> names[k], id |-> <<it, k>>]]

\* An agent output: with stop_reason tool_use, any list of tool_use blocks (an
\* empty one too); with another stop_reason, no tool_use block.
AgentOutputs(it) ==
    { [stop_reason |-> "tool_use", tool_uses |-> ToolUseBlocks(it, ns)] :
        ns \in ToolUseLists }
    \cup
    { [stop_reason |-> sr, tool_uses |-> <<>>] : sr \in StopReasons \ {"tool_use"} }

NoResult == [stop_reason |-> "none", tool_uses |-> <<>>]

\* {"error": ..., "success": False}
ErrorEnvelope == [kind |-> "error_envelope", success |-> FALSE]

\* A validator's structured result.
ValidatorResult == [kind |-> "result", success |-> TRUE]

\* The try block of FixGenerator._execute_tool: the branch of the named tool
\* returns the validator's result or raises (tool_input[...] KeyError, or an
\* exception of the validator); any other name gets the "Unknown tool" envelope.
ExecuteToolBody(tool_name, outcome) ==
    IF tool_name \in VALIDATION_TOOLS
    THEN IF outcome \in {"missing_field", "raises"}
         THEN [raised |-> TRUE, value |-> ErrorEnvelope]
         ELSE [raised |-> FALSE, value |-> ValidatorResult]
    ELSE [raised |-> FALSE, value |-> ErrorEnvelope]

\* _execute_tool without its final else branch: an unknown name falls through
\* and is answered like a validator result.
_execute_tool_no_else(tool_name, outcome) ==
    LET body == ExecuteToolBody(tool_name, outcome) IN
    IF body.raised THEN [raised |-> FALSE, value |-> ErrorEnvelope]
    ELSE [raised |-> FALSE, value |-> ValidatorResult]

\* FixGenerator._execute_tool: `except Exception` returns the envelope, so no
\* exception leaves it.
_execute_tool(tool_name, outcome) ==
    LET body == ExecuteToolBody(tool_name, outcome) IN
    IF body.raised THEN [raised |-> FALSE, value |-> ErrorEnvelope] ELSE body

\* The block built with the id of the turn's first tool_use instead of the
\* current one.
ToolResultBlock_first_id(tool_use, executed) ==
    [tool_use_id |-> result.tool_uses[1].id, content |-> executed.value,
     is_error |-> executed.raised]

\* The tool_result block invoke_model_with_tools appends for one tool_use.
ToolResultBlock(tool_use, executed) ==
    IF executed.raised
    THEN [tool_use_id |-> tool_use.id, content |-> ErrorEnvelope, is_error |-> TRUE]
    ELSE [tool_use_id |-> tool_use.id, content |-> executed.value, is_error |-> FALSE]

\* The verdict of the most recent validator run.
NewValidation(old, outcome) ==
    IF outcome \in {"passed", "failed"} THEN outcome ELSE old

\* `if stop_reason == 'tool_use'` with a non-empty tool_uses list.
IsToolTurn(out) == out.stop_reason = "tool_use" /\ out.tool_uses # <<>>

\* range(max_tool_iterations + 1): one iteration too many.
LoopContinues_one_more == iteration <= max_tool_iterations

\* `for iteration in range(max_tool_iterations)`
LoopContinues == iteration < max_tool_iterations

\* BedrockClient.get_response_text: the text of the first text block, or ''.
get_response_text(text) == IF text = "none" THEN "" ELSE text

\* FixGenerator._parse_fix_response: success iff the text holds parsable JSON.
_parse_fix_response(response_text) == response_text = "json"

\* GitHubClient.create_branch(repo_full_name, branch_name, base_branch='main')
\* has no parameter `force`.
create_branch_params == {"repo_full_name", "branch_name", "base_branch"}

\* The flow touches no variable of the other two state machines.
LoopFrame == UNCHANGED <<applyVars, sandboxVars, depVars, syntaxVars, runnerVars,
    laterVars>>

LoopInit ==
    /\ pc = "generate_fix"
    /\ skip_pr = FALSE
    /\ iteration = 0
    /\ result = NoResult
    /\ messages = [len |-> 0, open |-> {}, last |-> "none"]
    /\ tool_results = <<>>
    /\ last_outcome = "none"
    /\ validation = "none"
    /\ fix_result = [success |-> FALSE, validated_with_tools |-> FALSE]
    /\ pr_result = [called |-> FALSE, success |-> FALSE]

\* generate_fix up to the call of invoke_model_with_tools, and the first line
\* of that: messages = [{"role": "user", ...}].
GenerateFixBegin ==
    /\ pc = "generate_fix"
    /\ pc' = "agent"
    /\ messages' = [len |-> 1, open |-> {}, last |-> "user"]
    /\ UNCHANGED <<skip_pr, iteration, result, tool_results, last_outcome, validation,
                   fix_result, pr_result>>
    /\ LoopFrame

\* One agent round trip that raises (any exception of the Bedrock call).
AgentRaises ==
    /\ pc = "agent"
    /\ LoopContinues
    /\ iteration' = iteration + 1
    /\ pc' = "raised"
    /\ last_outcome' = "none"
    /\ UNCHANGED <<skip_pr, result, messages, tool_results, validation,
                   fix_result, pr_result>>
    /\ LoopFrame

\* One agent round trip that answers.
AgentAnswers ==
    /\ pc = "agent"
    /\ LoopContinues
    /\ iteration' = iteration + 1
    /\ \E out \in AgentOutputs(iteration + 1) :
        /\ result' = out
        /\ IF IsToolTurn(out)
           THEN /\ messages' = [len  |-> messages.len + 1,
                                open |-> messages.open \cup
                                         {out.tool_uses[k].id : k \in 1..Len(out.tool_uses)},
                                last |-> "assistant"]
                /\ tool_results' = <<>>
                /\ pc' = "tools"
           ELSE /\ pc' = "returned"
                /\ UNCHANGED <<messages, tool_results>>
    /\ last_outcome' = "none"
    /\ UNCHANGED <<skip_pr, validation, fix_result, pr_result>>
    /\ LoopFrame

\* The body of `for tool_use in tool_uses` for the next tool_use block.
ExecuteTool ==
    /\ pc = "tools"
    /\ Len(tool_results) < Len(result.tool_uses)
    /\ LET tool_use == result.tool_uses[Len(tool_results) + 1] IN
       \E outcome \in ToolOutcomes(tool_use.name) :
          /\ tool_results' = Append(tool_results,
                 ToolResultBlock(tool_use, _execute_tool(tool_use.name, outcome)))
          /\ last_outcome' = outcome
          /\ validation' = NewValidation(validation, outcome)
    /\ UNCHANGED <<pc, skip_pr, iteration, result, messages, fix_result, pr_result>>
    /\ LoopFrame

\* messages.append({"role": "user", "content": tool_results}); continue
AppendToolResults ==
    /\ pc = "tools"
    /\ Len(tool_results) = Len(result.tool_uses)
    /\ messages' = [len  |-> messages.len + 1,
                    open |-> messages.open \
                             {tool_results[k].tool_use_id : k \in 1..Len(tool_results)},
                    last |-> "user"]
    /\ pc' = "agent"
    /\ UNCHANGED <<skip_pr, iteration, result, tool_results, last_outcome, validation,
                   fix_result, pr_result>>
    /\ LoopFrame

\* The loop ran max_tool_iterations times: `return result`.
MaxIterationsReached ==
    /\ pc = "agent"
    /\ ~LoopContinues
    /\ pc' = "returned"
    /\ UNCHANGED <<skip_pr, iteration, result, messages, tool_results, last_outcome, validation,
                   fix_result, pr_result>>
    /\ LoopFrame

\* generate_fix after invoke_model_with_tools returned.
GenerateFixFinish ==
    /\ pc = "returned"
    /\ \E text \in TextKinds :
          fix_result' = [success |-> _parse_fix_response(get_response_text(text)),
                         validated_with_tools |-> TRUE]
    /\ pc' = "main_check"
    /\ UNCHANGED <<skip_pr, iteration, result, messages, tool_results, last_outcome, validation,
                   pr_result>>
    /\ LoopFrame

\* main: `if not fix_result.get('success')`, `if not args.skip_pr`.
MainAfterFix ==
    /\ pc = "main_check"
    /\ \E arg \in BOOLEAN :
          /\ skip_pr' = arg
          /\ pc' = IF ~fix_result.success THEN "exit_1"
                   ELSE IF arg THEN "done" ELSE "create_pr"
    /\ UNCHANGED <<iteration, result, messages, tool_results, last_outcome, validation,
                   fix_result, pr_result>>
    /\ LoopFrame

\* create_pr_with_fix: its first call, create_branch(..., force=True), raises
\* TypeError, which the except clause turns into {'success': False}.
CreatePrWithFix ==
    /\ pc = "create_pr"
    /\ pr_result' = [called |-> TRUE, success |-> "force" \in create_branch_params]
    /\ pc' = "pr_check"
    /\ UNCHANGED <<skip_pr, iteration, result, messages, tool_results, last_outcome, validation,
                   fix_result>>
    /\ LoopFrame

\* main: `if pr_result.get('success')`.
MainAfterPr ==
    /\ pc = "pr_check"
    /\ pc' = IF pr_result.success THEN "done" ELSE "exit_1"
    /\ UNCHANGED <<skip_pr, iteration, result, messages, tool_results, last_outcome, validation,
                   fix_result, pr_result>>
    /\ LoopFrame

\* main: `except Exception` around the three steps.
MainException ==
    /\ pc = "raised"
    /\ pc' = "exit_1"
    /\ UNCHANGED <<skip_pr, iteration, result, messages, tool_results, last_outcome, validation,
                   fix_result, pr_result>>
    /\ LoopFrame

LoopNext ==
    \/ GenerateFixBegin
    \/ AgentRaises
    \/ AgentAnswers
    \/ ExecuteTool
    \/ AppendToolResults
    \/ MaxIterationsReached
    \/ GenerateFixFinish
    \/ MainAfterFix
    \/ CreatePrWithFix
    \/ MainAfterPr
    \/ MainException

\* The state in which the flow is not running (the other specifications).
LoopIdle ==
    /\ pc = "idle"
    /\ skip_pr = FALSE
    /\ iteration = 0
    /\ result = NoResult
    /\ messages = [len |-> 0, open |-> {}, last |-> "none"]
    /\ tool_results = <<>>
    /\ last_outcome = "none"
    /\ validation = "none"
    /\ fix_result = [success |-> FALSE, validated_with_tools |-> FALSE]
    /\ pr_result = [called |-> FALSE, success |-> FALSE]

(***************************************************************************)
(* The patch applicator.  A Python string is a sequence of one-character   *)
(* strings; the content of a file is [present, text], present = FALSE      *)
(* standing for None (the file could not be read).                         *)
(***************************************************************************)
SetMin(S) == CHOOSE x \in S : \A y \in S : x <= y
SetMax(S) == CHOOSE x \in S : \A y \in S : x >= y

\* The characters str.strip() and str.split() treat as whitespace.
Whitespace == {" ", "\n"}

\* str.strip()
strip(s) ==
    LET keep == {i \in 1..Len(s) : s[i] \notin Whitespace} IN
    IF keep = {} THEN <<>> ELSE SubSeq(s, SetMin(keep), SetMax(keep))

\* str.startswith(prefix)
startswith(s, prefix) ==
    Len(prefix) <= Len(s) /\ SubSeq(s, 1, Len(prefix)) = prefix

\* `sub in s`
Contains(s, sub) ==
    \E i \in 1..(Len(s) - Len(sub) + 1) : SubSeq(s, i, i + Len(sub) - 1) = sub

\* s[:n]
Take(s, n) == SubSeq(s, 1, IF n < Len(s) THEN n ELSE Len(s))

\* s.replace(old, new) without a count: every occurrence, left to right.
RECURSIVE replace_all(_, _, _)
replace_all(s, old, new) ==
    IF old # <<>> /\ startswith(s, old)
    THEN new \o replace_all(SubSeq(s, Len(old) + 1, Len(s)), old, new)
    ELSE IF s = <<>> THEN <<>>
    ELSE <<Head(s)>> \o replace_all(Tail(s), old, new)

\* s.replace(old, new, 1): scan from the left, replace the first match.
RECURSIVE replace_first(_, _, _)
replace_first(s, old, new) ==
    IF startswith(s, old)
    THEN new \o SubSeq(s, Len(old) + 1, Len(s))
    ELSE IF s = <<>> THEN <<>>
    ELSE <<Head(s)>> \o replace_first(Tail(s), old, new)

\* s.split('\n')
RECURSIVE split_lines(_)
split_lines(s) ==
    LET nl == {i \in 1..Len(s) : s[i] = "\n"} IN
    IF nl = {} THEN <<s>>
    ELSE <<SubSeq(s, 1, SetMin(nl) - 1)>>
         \o split_lines(SubSeq(s, SetMin(nl) + 1, Len(s)))

\* s.split(): the maximal runs of non-whitespace characters.
RECURSIVE split_words(_)
split_words(s) ==
    LET keep == {i \in 1..Len(s) : s[i] \notin Whitespace} IN
    IF keep = {} THEN <<>>
    ELSE LET from == SetMin(keep)
             ws   == {i \in from..Len(s) : s[i] \in Whitespace}
             to   == IF ws = {} THEN Len(s) ELSE SetMin(ws) - 1
         IN <<SubSeq(s, from, to)>> \o split_words(SubSeq(s, to + 1, Len(s)))

\* sep.join(parts)
RECURSIVE join(_, _)
join(sep, parts) ==
    IF parts = <<>> THEN <<>>
    ELSE IF Len(parts) = 1 THEN parts[1]
    ELSE parts[1] \o sep \o join(sep, Tail(parts))

\* ' '.join(s.split())
normalize(s) == join(<<" ">>, split_words(s))

\* ('import ', 'const ', 'require(', 'from ')
ImportPrefixes ==
    { <<"i", "m", "p", "o", "r", "t", " ">>,
      <<"c", "o", "n", "s", "t", " ">>,
      <<"r", "e", "q", "u", "i", "r", "e", "(">>,
      <<"f", "r", "o", "m", " ">> }

\* The check over every line instead of the first ImportWindow lines.
has_imports_any_line(new_lines) ==
    \E k \in 1..Len(new_lines) :
        \E prefix \in ImportPrefixes : startswith(strip(new_lines[k]), prefix)

\* any(l.strip().startswith((...)) for l in new_lines[:5])
has_imports(new_lines) ==
    \E k \in 1..Len(Take(new_lines, ImportWindow)) :
        \E prefix \in ImportPrefixes : startswith(strip(new_lines[k]), prefix)

\* `not current_content`: None or the empty string.
IsFalsy(content) == ~content.present \/ content.text = <<>>

\* The same search with the whole normalized anchor.
ApproximateMatchLine_whole_anchor(content_lines, old_code) ==
    LET old_normalized == normalize(old_code)
        old_lines == split_lines(strip(old_code))
        hits == {i \in 0..(Len(content_lines) - 1) :
                    /\ Contains(normalize(content_lines[i + 1]), old_normalized)
                    /\ i + Len(old_lines) <= Len(content_lines)}
    IN IF hits = {} THEN Len(content_lines) ELSE SetMin(hits)

\* The normalized-whitespace branch of _apply_changes: the first line i (from
\* 0) whose normalized form contains old_normalized[:50] and from which the
\* block of len(old_lines) lines fits; Len(content_lines) if there is none.
ApproximateMatchLine(content_lines, old_code) ==
    LET old_normalized == normalize(old_code)
        old_lines == split_lines(strip(old_code))
        hits == {i \in 0..(Len(content_lines) - 1) :
                    /\ Contains(normalize(content_lines[i + 1]),
                                Take(old_normalized, NormalizedPrefixLen))
                    /\ i + Len(old_lines) <= Len(content_lines)}
    IN IF hits = {} THEN Len(content_lines) ELSE SetMin(hits)

\* One iteration of the loop of PRCreator._apply_changes.
apply_change(modified_content, change) ==
    LET old_code == change.old_code
        new_code == change.new_code
    IN
    IF new_code = <<>> THEN modified_content
    ELSE IF old_code # <<>> /\ Contains(modified_content, strip(old_code))
    THEN replace_first(modified_content, strip(old_code), strip(new_code))
    ELSE IF old_code # <<>>
    THEN LET content_lines == split_lines(modified_content)
             i == ApproximateMatchLine(content_lines, old_code)
             n == Len(split_lines(strip(old_code)))
         IN IF i < Len(content_lines)
            THEN join(<<"\n">>,
                      SubSeq(content_lines, 1, i)
                      \o split_lines(strip(new_code))
                      \o SubSeq(content_lines, i + n + 1, Len(content_lines)))
            ELSE modified_content
    ELSE LET new_lines == split_lines(strip(new_code))
             has_structure ==
                 2 * Len(new_lines) > Len(split_lines(modified_content))
         IN IF has_imports(new_lines) /\ has_structure
            THEN new_code
            ELSE modified_content

\* One iteration of the loop of FixGenerator._apply_changes_for_simulation.
simulate_change(modified_content, change) ==
    LET old_code == change.old_code
        new_code == change.new_code
    IN
    IF new_code = <<>> THEN modified_content
    ELSE IF old_code # <<>> /\ Contains(modified_content, strip(old_code))
    THEN replace_first(modified_content, strip(old_code), strip(new_code))
    ELSE IF old_code = <<>>
    THEN LET new_lines == split_lines(strip(new_code))
             has_structure == Len(new_lines) > SimulationMinLines
         IN IF has_imports(new_lines) /\ has_structure
            THEN new_code
            ELSE modified_content
    ELSE modified_content

\* The loop left at the first edit that changes nothing.
RECURSIVE apply_loop_until_miss(_, _)
apply_loop_until_miss(modified_content, todo) ==
    IF todo = <<>> THEN modified_content
    ELSE IF apply_change(modified_content, Head(todo)) = modified_content
    THEN modified_content
    ELSE apply_loop_until_miss(apply_change(modified_content, Head(todo)),
                               Tail(todo))

\* `for change in changes` of _apply_changes.
RECURSIVE apply_loop(_, _)
apply_loop(modified_content, todo) ==
    IF todo = <<>> THEN modified_content
    ELSE apply_loop(apply_change(modified_content, Head(todo)), Tail(todo))

\* `for change in changes` of _apply_changes_for_simulation.
RECURSIVE simulate_loop(_, _)
simulate_loop(modified_content, todo) ==
    IF todo = <<>> THEN modified_content
    ELSE simulate_loop(simulate_change(modified_content, Head(todo)), Tail(todo))

\* changes[0] instead of changes[-1].
first_change(edits) == edits[1]

\* last_change = changes[-1]
last_change(edits) == edits[Len(edits)]

\* PRCreator._apply_changes(current_content, changes)
_apply_changes(content, edits) ==
    IF edits = <<>> THEN <<>>
    ELSE IF IsFalsy(content) THEN last_change(edits).new_code
    ELSE apply_loop(content.text, edits)

\* FixGenerator._apply_changes_for_simulation(current_content, changes)
_apply_changes_for_simulation(content, edits) ==
    IF IsFalsy(content) \/ edits = <<>>
    THEN (IF content.present THEN content.text ELSE <<>>)
    ELSE simulate_loop(content.text, edits)

(***************************************************************************)
(* Inputs of the patch applicator.                                         *)
(***************************************************************************)
Strings(alphabet, n) == UNION {[1..k -> alphabet] : k \in 0..n}

Contents == Strings({"a", " ", "\n"}, MaxContentLen)

\* A line of as many characters as the normalized match compares.
LongLine == [k \in 1..NormalizedPrefixLen |-> "a"]

\* Lines that files of several lines are made of.
ContentLines == { <<"a", " ", "a">>, <<"b">>, LongLine }

\* Files of one to three lines, at most one of them long.
LineContents ==
    {join(<<"\n">>, ls) :
        ls \in {l \in UNION {[1..k -> ContentLines] : k \in 1..3} :
                   Cardinality({i \in DOMAIN l : l[i] = LongLine}) <= 1}}

ContentInputs ==
    {[present |-> FALSE, text |-> <<>>]}
    \cup {[present |-> TRUE, text |-> t] : t \in Contents \cup LineContents}

\* An anchor whose normalized form is longer than what is compared.
LongAnchor == LongLine \o <<"c">>

Anchors ==
    { <<>>, <<"a">>, <<"a", "a">>, <<" ", "a">>, <<"a", " ">>, <<" ">>,
      <<"a", " ", "a">>, <<"a", " ", " ", "a">>, <<"a", "\n", "a">>, <<"b">>,
      LongAnchor }

Replacements ==
    { <<>>, <<"b">>, <<" ", "b", " ">>, <<"b", "\n", "b">> }

ImportLine == <<"i", "m", "p", "o", "r", "t", " ", "a">>
PlainLine == <<"b">>

\* A text of n lines whose line p is an import (none if p = 0).
FileText(n, p) ==
    join(<<"\n">>, [k \in 1..n |-> IF k = p THEN ImportLine ELSE PlainLine])

\* The texts of n lines, and an import line below ImportWindow blank lines.
FileTexts ==
    {FileText(n, p) :
        n \in (1..(ImportWindow + 1))
              \cup {SimulationMinLines, SimulationMinLines + 1},
        p \in {0, 1, ImportWindow, ImportWindow + 1}}
    \cup {[k \in 1..ImportWindow |-> "\n"] \o ImportLine}

Edits ==
    {[old_code |-> a, new_code |-> r] : a \in Anchors, r \in Replacements}
    \cup {[old_code |-> <<>>, new_code |-> t] : t \in FileTexts}

\* The edits that longer change lists are built from.
CoreEdits ==
    { [old_code |-> <<"a">>, new_code |-> <<"b">>],
      [old_code |-> <<"b">>, new_code |-> <<"a", " ", "a">>],
      [old_code |-> <<"a", " ", " ", "a">>, new_code |-> <<"b", "\n", "b">>],
      [old_code |-> <<"a">>, new_code |-> <<>>],
      [old_code |-> <<>>, new_code |-> <<"b">>],
      [old_code |-> <<>>, new_code |-> FileText(2, 1)] }

ChangeLists ==
    {<<>>}
    \cup {<<e>> : e \in Edits}
    \cup UNION {[1..k -> CoreEdits] : k \in 2..MaxChanges}

ApplyFrame == UNCHANGED <<loopVars, sandboxVars, depVars, syntaxVars, runnerVars,
    laterVars>>

ApplyInputs ==
    /\ apc = "input"
    /\ current_content \in ContentInputs
    /\ changes \in ChangeLists
    /\ new_content = <<>>
    /\ simulated = <<>>

\* FixGenerator._simulate_file_changes previews the file during validation.
SimulateFileChanges ==
    /\ apc = "input"
    /\ simulated' = _apply_changes_for_simulation(current_content, changes)
    /\ apc' = "simulated"
    /\ UNCHANGED <<current_content, changes, new_content>>
    /\ ApplyFrame

\* PRCreator.create_pr_with_fix computes the content to commit.
ApplyChanges ==
    /\ apc = "simulated"
    /\ new_content' = _apply_changes(current_content, changes)
    /\ apc' = "applied"
    /\ UNCHANGED <<current_content, changes, simulated>>
    /\ ApplyFrame

ApplyNext == SimulateFileChanges \/ ApplyChanges

ApplyIdle ==
    /\ apc = "idle"
    /\ current_content = [present |-> FALSE, text |-> <<>>]
    /\ changes = <<>>
    /\ new_content = <<>>
    /\ simulated = <<>>

(***************************************************************************)
(* The sandbox executor: BuildRunner.build and TestRunner.run_tests, called *)
(* concurrently.  0 stands for "no call".                                  *)
(***************************************************************************)
CallIds == 1..MaxCalls

\* Names tempfile.TemporaryDirectory() can hand out.
TmpNames == {<<"tmp", n>> : n \in CallIds}

TmpParent == <<"tmp_parent", 0>>
AbsolutePath == <<"absolute", 0>>
NoDir == <<"none", 0>>

\* Where a file can land: inside a sandbox directory, in the directory the
\* sandboxes are created in, or at an absolute path.
Locations == TmpNames \cup {TmpParent, AbsolutePath}

\* The kinds of dict keys of `files`: a relative path inside the sandbox, a
\* path with a parent-directory segment, an absolute path.
FileSets == { <<"relative">>, <<"relative", "dotdot">>, <<"relative", "absolute">> }

\* os.path.join(tmpdir, file_path)
full_path(tmpdir, file_path) ==
    CASE file_path = "relative" -> tmpdir
      [] file_path = "dotdot"   -> TmpParent
      [] file_path = "absolute" -> AbsolutePath

Manifests == {"none", "package.json", "requirements.txt"}

Ops == {"build", "run_tests"}

NoCallResult ==
    [op |-> "none", success |-> FALSE, skipped |-> FALSE, stage |-> "none",
     error |-> "none", timeout |-> 0, exit_code |-> -1, output |-> "none"]

IdleCall ==
    [pc |-> "idle", tmpdir |-> NoDir, files |-> <<>>, nwritten |-> 0,
     result |-> NoCallResult]

\* {"success": True, "skipped": True, ...}
SkippedResult(op) ==
    [NoCallResult EXCEPT !.op = op, !.success = TRUE, !.skipped = TRUE]

\* {"success": False, "stage": "dependency_install", ...}
InstallFailedResult(op) ==
    [NoCallResult EXCEPT !.op = op, !.stage = "dependency_install",
                         !.error = "install"]

\* the result of `except Exception`
ExceptionResult(op) == [NoCallResult EXCEPT !.op = op, !.error = "exception"]

\* the result of `except subprocess.TimeoutExpired`
TimeoutResult(op) ==
    [NoCallResult EXCEPT
        !.op = op,
        !.error = "timeout",
        !.timeout = IF op = "build" THEN BuildTimeout ELSE TestTimeout]

\* a result that reports success whatever the exit code
CommandResult_ignoring_code(op, code) ==
    [NoCallResult EXCEPT !.op = op, !.success = TRUE, !.exit_code = code,
                         !.output = "captured"]

\* the result after the command has exited
CommandResult(op, code) ==
    [NoCallResult EXCEPT !.op = op, !.success = (code = 0), !.exit_code = code,
                         !.output = "captured"]

\* What the package manager can do for a manifest.
InstallOutcomes(manifest) ==
    IF manifest = "none" THEN {"no_manifest"}
    ELSE {"exit0", "nonzero", "timeout", "not_found", "exception"}

\* a check that lets a non-zero exit of the package manager pass
install_success_lenient(outcome) ==
    outcome \in {"no_manifest", "exit0", "not_found", "nonzero"}

\* install_result['success']
install_success(outcome) == outcome \in {"no_manifest", "exit0", "not_found"}

\* tempfile.TemporaryDirectory.__exit__: the directory of call c and what is
\* inside it are removed.
Cleanup(c) ==
    /\ dirs' = [dirs EXCEPT ![calls[c].tmpdir] = 0]
    /\ fs' = [fs EXCEPT ![calls[c].tmpdir] = 0]

\* `return {...}` from inside the `with` block.  Which of build and run_tests
\* the call is shows only in what it returns, and is drawn there.
Return(c, res) ==
    /\ calls' = [calls EXCEPT ![c] =
                    [IdleCall EXCEPT !.pc = "returned", !.result = res]]
    /\ Cleanup(c)

SandboxFrame == UNCHANGED <<loopVars, applyVars, depVars, syntaxVars, runnerVars,
    laterVars>>

SandboxInit ==
    /\ calls = [c \in CallIds |-> IdleCall]
    /\ fs = [l \in Locations |-> 0]
    /\ dirs = [n \in TmpNames |-> 0]
    /\ site_packages = 0

\* `with tempfile.TemporaryDirectory() as tmpdir`: mkdtemp creates a
\* directory under a name under which nothing exists.
BeginCall(c) ==
    /\ calls[c].pc = "idle"
    /\ \E files \in FileSets, name \in TmpNames :
          /\ dirs[name] = 0
          /\ dirs' = [dirs EXCEPT ![name] = c]
          /\ calls' = [calls EXCEPT ![c] =
                          [@ EXCEPT !.pc = "write", !.tmpdir = name,
                                    !.files = files]]
    /\ UNCHANGED <<fs, site_packages>>
    /\ SandboxFrame

\* One iteration of `for file_path, content in files.items()`.
WriteFile(c) ==
    /\ calls[c].pc = "write"
    /\ calls[c].nwritten < Len(calls[c].files)
    /\ \E raises \in BOOLEAN, op \in Ops :
          IF raises
          THEN Return(c, ExceptionResult(op))
          ELSE /\ fs' = [fs EXCEPT
                    ![full_path(calls[c].tmpdir,
                                calls[c].files[calls[c].nwritten + 1])] = c]
               /\ calls' = [calls EXCEPT ![c].nwritten = @ + 1]
               /\ UNCHANGED dirs
    /\ UNCHANGED site_packages
    /\ SandboxFrame

\* `if not build_command: build_command = self._detect_build_command(files)`
\* and the early return when there is no command.
DetectCommand(c) ==
    /\ calls[c].pc = "write"
    /\ calls[c].nwritten = Len(calls[c].files)
    /\ \E detected \in {"command", "none", "raises"}, op \in Ops :
          CASE detected = "command" ->
                  /\ calls' = [calls EXCEPT ![c].pc = "install"]
                  /\ UNCHANGED <<dirs, fs>>
            [] detected = "none" -> Return(c, SkippedResult(op))
            [] detected = "raises" -> Return(c, ExceptionResult(op))
    /\ UNCHANGED site_packages
    /\ SandboxFrame

\* `install_result = self._install_dependencies(tmpdir, files)` and the
\* return on failure.  pip installs into the environment of the interpreter,
\* npm into node_modules inside tmpdir.
InstallDependencies(c) ==
    /\ calls[c].pc = "install"
    /\ \E manifest \in Manifests, op \in Ops :
       \E outcome \in InstallOutcomes(manifest) :
          /\ site_packages' =
                IF manifest = "requirements.txt" /\ outcome = "exit0"
                THEN c ELSE site_packages
          /\ IF install_success(outcome)
             THEN /\ calls' = [calls EXCEPT ![c].pc = "run"]
                  /\ UNCHANGED <<dirs, fs>>
             ELSE Return(c, InstallFailedResult(op))
    /\ SandboxFrame

\* `subprocess.run(build_command, shell=True, cwd=tmpdir, timeout=...)` and
\* the return that follows it.
RunCommand(c) ==
    /\ calls[c].pc = "run"
    /\ \E outcome \in {"exit0", "nonzero", "timeout", "exception"}, op \in Ops :
          CASE outcome = "exit0" -> Return(c, CommandResult(op, 0))
            [] outcome = "nonzero" -> Return(c, CommandResult(op, 1))
            [] outcome = "timeout" -> Return(c, TimeoutResult(op))
            [] outcome = "exception" -> Return(c, ExceptionResult(op))
    /\ UNCHANGED site_packages
    /\ SandboxFrame

\* An exception that is not an Exception (KeyboardInterrupt, SystemExit)
\* leaves the `with` block and the call.
CallRaises(c) ==
    /\ calls[c].pc \in {"write", "install", "run"}
    /\ calls' = [calls EXCEPT ![c] = [IdleCall EXCEPT !.pc = "raised"]]
    /\ Cleanup(c)
    /\ UNCHANGED site_packages
    /\ SandboxFrame

SandboxNext ==
    \E c \in CallIds :
        \/ BeginCall(c)
        \/ WriteFile(c)
        \/ DetectCommand(c)
        \/ InstallDependencies(c)
        \/ RunCommand(c)
        \/ CallRaises(c)

SandboxIdle ==
    /\ calls = <<>>
    /\ fs = <<>>
    /\ dirs = <<>>
    /\ site_packages = 0

(***************************************************************************)
(* The dependency checker.  Python's regular expressions are matched on    *)
(* the characters of the code, as re.findall does.                         *)
(***************************************************************************)
PYTHON_BUILTINS ==
    {
      <<"o", "s">>, <<"s", "y", "s">>, <<"r", "e">>,
      <<"j", "s", "o", "n">>, <<"t", "i", "m", "e">>,
      <<"d", "a", "t", "e", "t", "i", "m", "e">>,
      <<"c", "o", "l", "l", "e", "c", "t", "i", "o", "n", "s">>,
      <<"i", "t", "e", "r", "t", "o", "o", "l", "s">>,
      <<"f", "u", "n", "c", "t", "o", "o", "l", "s">>,
      <<"m", "a", "t", "h">>, <<"r", "a", "n", "d", "o", "m">>,
      <<"s", "t", "r", "i", "n", "g">>, <<"i", "o">>,
      <<"l", "o", "g", "g", "i", "n", "g">>,
      <<"u", "n", "i", "t", "t", "e", "s", "t">>,
      <<"a", "r", "g", "p", "a", "r", "s", "e">>,
      <<"s", "u", "b", "p", "r", "o", "c", "e", "s", "s">>,
      <<"p", "a", "t", "h", "l", "i", "b">>,
      <<"t", "y", "p", "i", "n", "g">>, <<"e", "n", "u", "m">>,
      <<"d", "a", "t", "a", "c", "l", "a", "s", "s", "e", "s">>,
      <<"a", "b", "c">>, <<"a", "s", "y", "n", "c", "i", "o">>,
      <<"t", "h", "r", "e", "a", "d", "i", "n", "g">>,
      <<"m", "u", "l", "t", "i", "p", "r", "o", "c", "e", "s", "s", "i", "n", "g">>,
      <<"s", "o", "c", "k", "e", "t">>, <<"h", "t", "t", "p">>,
      <<"u", "r", "l", "l", "i", "b">>, <<"e", "m", "a", "i", "l">>,
      <<"b", "a", "s", "e", "6", "4">>,
      <<"h", "a", "s", "h", "l", "i", "b">>, <<"h", "m", "a", "c">>,
      <<"c", "s", "v">>, <<"t", "e", "m", "p", "f", "i", "l", "e">>,
      <<"s", "h", "u", "t", "i", "l">>, <<"g", "l", "o", "b">>,
      <<"f", "n", "m", "a", "t", "c", "h">> }

JAVASCRIPT_BUILTINS ==
    {
      <<"f", "s">>, <<"p", "a", "t", "h">>, <<"h", "t", "t", "p">>,
      <<"h", "t", "t", "p", "s">>, <<"u", "t", "i", "l">>,
      <<"c", "r", "y", "p", "t", "o">>, <<"o", "s">>,
      <<"e", "v", "e", "n", "t", "s">>, <<"s", "t", "r", "e", "a", "m">>,
      <<"b", "u", "f", "f", "e", "r">>, <<"u", "r", "l">>,
      <<"q", "u", "e", "r", "y", "s", "t", "r", "i", "n", "g">>,
      <<"a", "s", "s", "e", "r", "t">>,
      <<"c", "h", "i", "l", "d", "_", "p", "r", "o", "c", "e", "s", "s">>,
      <<"c", "l", "u", "s", "t", "e", "r">>, <<"d", "g", "r", "a", "m">>,
      <<"d", "n", "s">>, <<"n", "e", "t">>,
      <<"r", "e", "a", "d", "l", "i", "n", "e">>, <<"r", "e", "p", "l">>,
      <<"t", "l", "s">>, <<"t", "t", "y">>, <<"v", "8">>, <<"v", "m">>,
      <<"w", "o", "r", "k", "e", "r", "_", "t", "h", "r", "e", "a", "d", "s">>,
      <<"z", "l", "i", "b">>, <<"p", "r", "o", "c", "e", "s", "s">>,
      <<"c", "o", "n", "s", "o", "l", "e">> }

\* \s
RegexWhitespace == {" ", "\n", "\t"}

\* [a-zA-Z0-9_\.], as far as the characters of the model go
IdentChars ==
    { "a", "b", "c", "d", "e", "f", "g", "h", "i", "j", "k", "l", "m", "n",
      "o", "p", "q", "r", "s", "t", "u", "v", "w", "x", "y", "z",
      "0", "1", "2", "3", "4", "5", "6", "7", "8", "9", "_", "." }

\* ['\"]
Quotes == {"'", "\""}

\* The first position from p on whose character is not in charset (Len + 1 if
\* there is none): where a greedy charset* stops.
SkipWhile(s, p, charset) ==
    LET stop == {q \in p..Len(s) : s[q] \notin charset} IN
    IF stop = {} THEN Len(s) + 1 ELSE SetMin(stop)

\* The first position from p on whose character is in charset: where a greedy
\* [^charset]* stops.
SkipUntil(s, p, charset) ==
    LET stop == {q \in p..Len(s) : s[q] \in charset} IN
    IF stop = {} THEN Len(s) + 1 ELSE SetMin(stop)

\* The literal lit stands at position p of s.
LitAt(s, p, lit) ==
    /\ p >= 1
    /\ p + Len(lit) - 1 <= Len(s)
    /\ SubSeq(s, p, p + Len(lit) - 1) = lit

\* s[p] \in charset, false beyond the end of s
CharAt(s, p, charset) == p >= 1 /\ p <= Len(s) /\ s[p] \in charset

NoMatch == [ok |-> FALSE, group |-> <<>>, end |-> 0]

\* ^ under re.MULTILINE
LineStart(s, p) == p = 1 \/ s[p - 1] = "\n"

\* r'^\s*import\s+([a-zA-Z0-9_\.]+)' matched at p
PyImportAt(s, p) ==
    LET q == SkipWhile(s, p, RegexWhitespace)
        r == q + 6
        t == SkipWhile(s, r, RegexWhitespace)
        e == SkipWhile(s, t, IdentChars)
    IN IF LineStart(s, p) /\ LitAt(s, q, <<"i", "m", "p", "o", "r", "t">>) /\ t > r /\ e > t
       THEN [ok |-> TRUE, group |-> SubSeq(s, t, e - 1), end |-> e]
       ELSE NoMatch

\* r'^\s*from\s+([a-zA-Z0-9_\.]+)\s+import' matched at p
PyFromAt(s, p) ==
    LET q == SkipWhile(s, p, RegexWhitespace)
        r == q + 4
        t == SkipWhile(s, r, RegexWhitespace)
        e == SkipWhile(s, t, IdentChars)
        u == SkipWhile(s, e, RegexWhitespace)
    IN IF /\ LineStart(s, p) /\ LitAt(s, q, <<"f", "r", "o", "m">>) /\ t > r /\ e > t
          /\ u > e /\ LitAt(s, u, <<"i", "m", "p", "o", "r", "t">>)
       THEN [ok |-> TRUE, group |-> SubSeq(s, t, e - 1), end |-> u + 6]
       ELSE NoMatch

\* r"require\s*\(\s*['\"]([^'\"]+)['\"]\s*\)" matched at p
JsRequireAt(s, p) ==
    LET a == SkipWhile(s, p + 7, RegexWhitespace)
        b == SkipWhile(s, a + 1, RegexWhitespace)
        c == SkipUntil(s, b + 1, Quotes)
        d == SkipWhile(s, c + 1, RegexWhitespace)
    IN IF /\ LitAt(s, p, <<"r", "e", "q", "u", "i", "r", "e">>) /\ CharAt(s, a, {"("})
          /\ CharAt(s, b, Quotes) /\ c > b + 1 /\ c <= Len(s)
          /\ CharAt(s, d, {")"})
       THEN [ok |-> TRUE, group |-> SubSeq(s, b + 1, c - 1), end |-> d + 1]
       ELSE NoMatch

\* \s+from\s+['\"]([^'\"]+)['\"] can end at a "from" that stands at f
FromClauseAt(s, f) ==
    LET g == SkipWhile(s, f + 4, RegexWhitespace)
        h == SkipUntil(s, g + 1, Quotes)
    IN /\ LitAt(s, f, <<"f", "r", "o", "m">>) /\ CharAt(s, f - 1, RegexWhitespace)
       /\ g > f + 4 /\ CharAt(s, g, Quotes) /\ h > g + 1 /\ h <= Len(s)

\* r"import\s+.*?\s+from\s+['\"]([^'\"]+)['\"]" matched at p.  The first \s+
\* is greedy and ends at i; the lazy .*? then grows up to the first "from"
\* clause it can reach without crossing a newline; failing that, the first
\* \s+ gives back one character for the second one.
JsImportFromAt(s, p) ==
    LET i == SkipWhile(s, p + 6, RegexWhitespace)
        reach == {f \in (i + 1)..Len(s) :
                    /\ FromClauseAt(s, f)
                    /\ \A k \in i..(f - 1) :
                          s[k] = "\n" => \A x \in k..(f - 1) : s[x] \in RegexWhitespace}
        f == IF reach # {} THEN SetMin(reach)
             ELSE IF i >= p + 8 /\ FromClauseAt(s, i) THEN i ELSE 0
        g == SkipWhile(s, f + 4, RegexWhitespace)
        h == SkipUntil(s, g + 1, Quotes)
    IN IF LitAt(s, p, <<"i", "m", "p", "o", "r", "t">>) /\ i > p + 6 /\ f > 0
       THEN [ok |-> TRUE, group |-> SubSeq(s, g + 1, h - 1), end |-> h + 1]
       ELSE NoMatch

\* r"import\s+['\"]([^'\"]+)['\"]" matched at p
JsImportBareAt(s, p) ==
    LET g == SkipWhile(s, p + 6, RegexWhitespace)
        h == SkipUntil(s, g + 1, Quotes)
    IN IF /\ LitAt(s, p, <<"i", "m", "p", "o", "r", "t">>) /\ g > p + 6 /\ CharAt(s, g, Quotes)
          /\ h > g + 1 /\ h <= Len(s)
       THEN [ok |-> TRUE, group |-> SubSeq(s, g + 1, h - 1), end |-> h + 1]
       ELSE NoMatch

MatchAt(pattern, s, p) ==
    CASE pattern = "py_import" -> PyImportAt(s, p)
      [] pattern = "py_from" -> PyFromAt(s, p)
      [] pattern = "js_require" -> JsRequireAt(s, p)
      [] pattern = "js_import_from" -> JsImportFromAt(s, p)
      [] pattern = "js_import_bare" -> JsImportBareAt(s, p)

\* re.findall(pattern, content): the groups of the successive matches, each
\* search starting where the previous match ended.
RECURSIVE findall(_, _, _)
findall(pattern, s, p) ==
    IF p > Len(s) THEN {}
    ELSE LET m == MatchAt(pattern, s, p) IN
         IF m.ok THEN {m.group} \cup findall(pattern, s, m.end)
         ELSE findall(pattern, s, p + 1)

\* s.split(sep)[0]
BeforeFirst(s, seps) == SubSeq(s, 1, SkipUntil(s, 1, seps) - 1)

\* The root module of one match of a JavaScript pattern.
JsRootModule(match) ==
    LET root_module == BeforeFirst(match, {"/"})
        rest == SubSeq(match, Len(root_module) + 2, Len(match))
    IN IF startswith(root_module, <<"@">>) /\ Contains(match, <<"/">>)
       THEN root_module \o <<"/">> \o BeforeFirst(rest, {"/"})
       ELSE root_module

\* DependencyChecker._extract_imports
_extract_imports(content, lang) ==
    IF lang = "python"
    THEN {BeforeFirst(match, {"."}) :
            match \in findall("py_import", content, 1)
                      \cup findall("py_from", content, 1)}
    ELSE IF lang \in {"javascript", "typescript"}
    THEN {JsRootModule(match) :
            match \in {x \in findall("js_require", content, 1)
                              \cup findall("js_import_from", content, 1)
                              \cup findall("js_import_bare", content, 1) :
                          ~startswith(x, <<".">>)}}
    ELSE {}

\* What a call gives back: a value, or an exception on its way up.
Returned(value) == [raised |-> FALSE, value |-> value]
Raised(value) == [raised |-> TRUE, value |-> value]

\* The shapes json.loads can give a manifest entry and the whole document.
\* An entry is a key of package.json: missing, null, or an object whose keys
\* are names.
NoEntry == [shape |-> "missing", names |-> {}]
NoJson == [shape |-> "none", dependencies |-> NoEntry, devDependencies |-> NoEntry]
AbsentContent == [present |-> FALSE, text |-> <<>>, json |-> NoJson]

\* re.split(r'[=<>!]', line)[0].strip()
RequirementName(line) == strip(BeforeFirst(line, {"=", "<", ">", "!"}))

\* The try block of DependencyChecker._parse_package_file: what it has put in
\* `available` when it ends or raises.
ParsePackageBody(package_content, lang) ==
    IF lang = "python"
    THEN IF ~package_content.present THEN Raised({})
         ELSE LET lines == split_lines(package_content.text) IN
              Returned({RequirementName(strip(lines[i])) :
                          i \in {k \in 1..Len(lines) :
                                   /\ strip(lines[k]) # <<>>
                                   /\ ~startswith(strip(lines[k]), <<"#">>)}})
    ELSE IF lang \in {"javascript", "typescript"}
    THEN LET pkg == package_content.json IN
         IF ~package_content.present THEN Raised({})
         ELSE IF pkg.shape = "invalid" THEN Returned({})
         ELSE IF pkg.shape # "object" THEN Raised({})
         ELSE IF "null" \in {pkg.dependencies.shape, pkg.devDependencies.shape}
         THEN Raised({})
         ELSE Returned(pkg.dependencies.names \cup pkg.devDependencies.names)
    ELSE Returned({})

\* DependencyChecker._parse_package_file: `except Exception` gives back what
\* was collected.
_parse_package_file(package_content, lang) ==
    Returned(ParsePackageBody(package_content, lang).value)

\* DependencyChecker._is_available
_is_available(module, available, lang) ==
    \/ lang = "python" /\ module \in PYTHON_BUILTINS
    \/ lang \in {"javascript", "typescript"} /\ module \in JAVASCRIPT_BUILTINS
    \/ module \in available

\* The try block of DependencyChecker.check_dependencies.
CheckDependenciesBody(file_content, package_content, lang) ==
    LET available == _parse_package_file(package_content, lang) IN
    IF available.raised THEN Raised({})
    ELSE Returned({module \in _extract_imports(file_content, lang) :
                     ~_is_available(module, available.value, lang)})

\* try: body / except Exception: return default
Caught(body, default) == IF body.raised THEN Returned(default) ELSE body

\* DependencyChecker.check_dependencies: `except Exception: return []`.  The
\* list of missing modules is kept as a set.
check_dependencies(file_content, package_content, lang) ==
    Caught(CheckDependenciesBody(file_content, package_content, lang), {})

(***************************************************************************)
(* Inputs of the dependency check: the code is a few import statements,    *)
(* the manifest a few requirement lines or a package.json document.  Both  *)
(* are rendered to text before the checker reads them.                     *)
(***************************************************************************)
MaxImports == 2
MaxDecls == 1

\* The enum of the check_dependencies tool.
Languages == {"python", "javascript", "typescript"}

ModuleM == <<"m">>
ModuleOs == <<"o", "s">>
ScopedModule == <<"@", "o", "/", "m">>
PythonModules == {ModuleM, ModuleOs}
JavaScriptModules == {ModuleM, ModuleOs, ScopedModule}

PythonForms == {"import", "from", "import_sub", "comma", "relative"}
JavaScriptForms == {"require", "import_from", "import_bare", "require_sub", "relative"}

Statements(lang) ==
    IF lang = "python"
    THEN [form : PythonForms, module : PythonModules]
    ELSE [form : JavaScriptForms, module : JavaScriptModules]

RenderStatement(lang, st) ==
    IF lang = "python"
    THEN CASE st.form = "import" -> <<"i", "m", "p", "o", "r", "t", " ">> \o st.module
           [] st.form = "from" -> <<"f", "r", "o", "m", " ">> \o st.module \o <<" ", "i", "m", "p", "o", "r", "t", " ", "x">>
           [] st.form = "import_sub" -> <<"i", "m", "p", "o", "r", "t", " ">> \o st.module \o <<".", "s">>
           [] st.form = "comma" -> <<"i", "m", "p", "o", "r", "t", " ", "o", "s", ",", " ">> \o st.module
           [] st.form = "relative" -> <<"f", "r", "o", "m", " ", ".", " ", "i", "m", "p", "o", "r", "t", " ">> \o st.module
    ELSE CASE st.form = "require" -> <<"r", "e", "q", "u", "i", "r", "e", "(", "'">> \o st.module \o <<"'", ")">>
           [] st.form = "import_from" -> <<"i", "m", "p", "o", "r", "t", " ", "x", " ", "f", "r", "o", "m", " ", "'">> \o st.module \o <<"'">>
           [] st.form = "import_bare" -> <<"i", "m", "p", "o", "r", "t", " ", "'">> \o st.module \o <<"'">>
           [] st.form = "require_sub" -> <<"r", "e", "q", "u", "i", "r", "e", "(", "'">> \o st.module \o <<"/", "s">> \o <<"'", ")">>
           [] st.form = "relative" -> <<"r", "e", "q", "u", "i", "r", "e", "(", "'">> \o <<".", "/">> \o st.module \o <<"'", ")">>

RenderCode(lang, stmts) ==
    join(<<"\n">>, [i \in 1..Len(stmts) |-> RenderStatement(lang, stmts[i])])

\* The modules the statements import from outside the project.
ImportedModules(stmts) ==
    {stmts[i].module : i \in {k \in 1..Len(stmts) : stmts[k].form # "relative"}}
    \cup {ModuleOs : i \in {k \in 1..Len(stmts) : stmts[k].form = "comma"}}

\* The statements that longer codes are made of.
CoreStatements(lang) ==
    IF lang = "python"
    THEN {[form |-> "import", module |-> ModuleM],
          [form |-> "from", module |-> ModuleOs],
          [form |-> "relative", module |-> ModuleM]}
    ELSE {[form |-> "require", module |-> ModuleM],
          [form |-> "import_from", module |-> ModuleOs],
          [form |-> "require_sub", module |-> ScopedModule]}

\* No statement, any one statement, or up to MaxImports core statements.
Codes(lang) ==
    {<<>>} \cup {<<st>> : st \in Statements(lang)}
    \cup UNION {[1..n -> CoreStatements(lang)] : n \in 2..MaxImports}

DeclForms == {"bare", "pinned", "minimum", "compatible", "comment"}
Declarations == [form : DeclForms, name : PythonModules]

RenderDeclaration(d) ==
    CASE d.form = "bare" -> d.name
      [] d.form = "pinned" -> d.name \o <<"=", "=", "1">>
      [] d.form = "minimum" -> d.name \o <<">", "=", "1">>
      [] d.form = "compatible" -> d.name \o <<"~", "=", "1">>
      [] d.form = "comment" -> <<"#", " ">> \o d.name

JsonEntries ==
    {NoEntry, [shape |-> "null", names |-> {}]}
    \cup {[shape |-> "object", names |-> ns] : ns \in SUBSET {ModuleM, ScopedModule}}

JsonDocuments ==
    {[shape |-> "invalid", dependencies |-> NoEntry, devDependencies |-> NoEntry],
     [shape |-> "array", dependencies |-> NoEntry, devDependencies |-> NoEntry]}
    \cup [shape : {"object"}, dependencies : JsonEntries, devDependencies : JsonEntries]

\* One "key": value member of package.json, nothing for a missing key.
RenderEntry(key, entry) ==
    CASE entry.shape = "missing" -> <<>>
      [] entry.shape = "null" -> <<<<"\"">> \o key \o <<"\"", ":", "n", "u", "l", "l">>>>
      [] entry.shape = "object" ->
           <<<<"\"">> \o key \o <<"\"", ":", "{">>
             \o (IF ModuleM \in entry.names THEN <<"\"", "m", "\"", ":", "\"", "1", "\"">> ELSE <<>>)
             \o (IF {ModuleM, ScopedModule} \subseteq entry.names THEN <<",">> ELSE <<>>)
             \o (IF ScopedModule \in entry.names THEN <<"\"", "@", "o", "/", "m", "\"", ":", "\"", "1", "\"">> ELSE <<>>)
             \o <<"}">>>>

RenderJson(doc) ==
    CASE doc.shape = "invalid" -> <<"{">>
      [] doc.shape = "array" -> <<"[", "]">>
      [] doc.shape = "object" ->
           <<"{">> \o join(<<",">>, RenderEntry(<<"d", "e", "p", "e", "n", "d", "e", "n", "c", "i", "e", "s">>, doc.dependencies)
                                   \o RenderEntry(<<"d", "e", "v", "D", "e", "p", "e", "n", "d", "e", "n", "c", "i", "e", "s">>, doc.devDependencies))
                   \o <<"}">>

NoManifest == [kind |-> "absent", lines |-> <<>>, json |-> NoJson]

\* The manifests a repository can hold for a language: requirements.txt for
\* python, package.json for the other two, or none.
PackageManifests(lang) ==
    {NoManifest} \cup
    IF lang = "python"
    THEN {[kind |-> "requirements", lines |-> ls, json |-> NoJson] :
            ls \in UNION {[1..n -> Declarations] : n \in 0..MaxDecls}}
    ELSE {[kind |-> "package_json", lines |-> <<>>, json |-> doc] :
            doc \in JsonDocuments}

\* self.package_manifest_cache.get(language)
ManifestContent(m) ==
    CASE m.kind = "absent" -> AbsentContent
      [] m.kind = "requirements" ->
           [present |-> TRUE,
            text |-> join(<<"\n">>, [i \in 1..Len(m.lines) |-> RenderDeclaration(m.lines[i])]),
            json |-> NoJson]
      [] m.kind = "package_json" ->
           [present |-> TRUE, text |-> RenderJson(m.json), json |-> m.json]

\* The manifest declares the module.
Declares(m, module) ==
    \/ \E i \in 1..Len(m.lines) : m.lines[i].name = module /\ m.lines[i].form # "comment"
    \/ /\ m.json.shape = "object"
       /\ module \in m.json.dependencies.names \cup m.json.devDependencies.names

NotCalled == Returned({})
NoToolResult == [all_available |-> FALSE, missing_dependencies |-> {}, message |-> "none"]

DepFrame == UNCHANGED <<loopVars, applyVars, sandboxVars, syntaxVars, runnerVars,
    laterVars>>

DepInit ==
    /\ dpc = "input"
    /\ language \in Languages
    /\ code_stmts \in Codes(language)
    /\ package_manifest \in PackageManifests(language)
    /\ missing = NotCalled
    /\ tool_result = NoToolResult

\* What the branch returns once the checker has answered; an exception of the
\* checker would become the error envelope of _execute_tool.
CheckedResult(found) ==
    [called |-> TRUE, found |-> found,
     result |-> IF found.raised
                THEN [all_available |-> FALSE, missing_dependencies |-> {},
                      message |-> "error"]
                ELSE [all_available |-> found.value = {},
                      missing_dependencies |-> found.value, message |-> "none"]]

\* The branch without its `if not package_content` guard.
CheckDependenciesTool_unguarded(code, package_content, lang) ==
    CheckedResult(check_dependencies(code, package_content, lang))

\* FixGenerator._execute_tool, the check_dependencies branch: the checker is
\* called only with a manifest that is there and not empty.
CheckDependenciesTool(code, package_content, lang) ==
    IF IsFalsy(package_content)
    THEN [called |-> FALSE, found |-> NotCalled,
          result |-> [all_available |-> TRUE, missing_dependencies |-> {},
                      message |-> "no_manifest"]]
    ELSE CheckedResult(check_dependencies(code, package_content, lang))

\* One check_dependencies tool call of the agent.
ExecuteCheckDependencies ==
    /\ dpc = "input"
    /\ \E out \in {CheckDependenciesTool(RenderCode(language, code_stmts),
                                         ManifestContent(package_manifest), language)} :
          /\ dpc' = IF out.called THEN "checked" ELSE "skipped"
          /\ missing' = out.found
          /\ tool_result' = out.result
    /\ UNCHANGED <<language, code_stmts, package_manifest>>
    /\ DepFrame

DepNext == ExecuteCheckDependencies

DepIdle ==
    /\ dpc = "idle"
    /\ language = "none"
    /\ code_stmts = <<>>
    /\ package_manifest = NoManifest
    /\ missing = NotCalled
    /\ tool_result = NoToolResult

(***************************************************************************)
(* The syntax validator.  The parsers (ast.parse, node with acorn) are     *)
(* outside the program: what they do with the content is an input.         *)
(***************************************************************************)
\* str.lower() on the letters of the model's paths
LowerChar(c) ==
    CASE c = "P" -> "p" [] c = "Y" -> "y" [] c = "J" -> "j"
      [] c = "S" -> "s" [] c = "T" -> "t" [] OTHER -> c

lower(s) == [i \in 1..Len(s) |-> LowerChar(s[i])]

\* s.split(sep)[-1]
AfterLast(s, sep) ==
    LET at == {i \in 1..Len(s) : s[i] = sep} IN
    IF at = {} THEN s ELSE SubSeq(s, SetMax(at) + 1, Len(s))

\* The keys of language_map
PythonExtensions == {<<"p", "y">>}
JavaScriptExtensions == {<<"j", "s">>, <<"j", "s", "x">>, <<"m", "j", "s">>, <<"c", "j", "s">>}
TypeScriptExtensions == {<<"t", "s">>, <<"t", "s", "x">>}

\* SyntaxValidator._detect_language
_detect_language(file_path) ==
    LET ext == lower(AfterLast(file_path, ".")) IN
    IF file_path = <<>> THEN "unknown"
    ELSE IF ext \in PythonExtensions THEN "python"
    ELSE IF ext \in JavaScriptExtensions THEN "javascript"
    ELSE IF ext \in TypeScriptExtensions THEN "typescript"
    ELSE "unknown"

NoText == <<>>
SyntaxErrorText == <<"L", "i", "n", "e", " ", "1", ":", " ", "i", "n", "v", "a", "l", "i", "d", " ", "s", "y", "n", "t", "a", "x">>
ExceptionText == <<"e", "x", "c", "e", "p", "t", "i", "o", "n">>
ValidText == <<"V", "A", "L", "I", "D">>
ErrorPrefix == <<"E", "R", "R", "O", "R", ":", " ">>
ParseErrorText == <<"U", "n", "e", "x", "p", "e", "c", "t", "e", "d", " ", "t", "o", "k", "e", "n", " ", "(", "1", ":", "4", ")">>
AcornMissingText == <<"C", "a", "n", "n", "o", "t", " ", "f", "i", "n", "d", " ", "m", "o", "d", "u", "l", "e", " ", "'", "a", "c", "o", "r", "n", "'">>
CrashText == <<"n", "o", "d", "e", ":", " ", "b", "a", "d", " ", "o", "p", "t", "i", "o", "n">>
TimeoutText == <<"S", "y", "n", "t", "a", "x", " ", "v", "a", "l", "i", "d", "a", "t", "i", "o", "n", " ", "t", "i", "m", "e", "d", " ", "o", "u", "t">>
NodeMissingText == <<"N", "o", "d", "e", ".", "j", "s", " ", "n", "o", "t", " ", "a", "v", "a", "i", "l", "a", "b", "l", "e">>

\* A dict the validator returns; '' stands for a key that is not there.
ValidationResult(valid, lang, skipped, error, reason) ==
    [valid |-> valid, language |-> lang, skipped |-> skipped,
     error |-> error, reason |-> reason]

\* What ast.parse does with the content.
PythonOutcomes ==
    {[kind |-> k, returncode |-> 0, stdout |-> NoText, stderr |-> NoText] :
        k \in {"parsed", "syntax_error", "exception"}}

\* What subprocess.run(['node', '-e', script], timeout=5) does: it cannot
\* start node, it cannot start for another reason, it times out, or node
\* exits.  The script prints VALID, or prints ERROR: and the message of
\* whatever its try block threw (acorn's parse error, or the failure of
\* require('acorn')) and exits with 1; node itself can die with text on
\* stderr.
NodeOutcomes ==
    {[kind |-> k, returncode |-> 0, stdout |-> NoText, stderr |-> NoText] :
        k \in {"node_missing", "os_error", "timeout"}}
    \cup {[kind |-> "parsed", returncode |-> 0,
           stdout |-> ValidText \o <<"\n">>, stderr |-> NoText],
          [kind |-> "parse_error", returncode |-> 1,
           stdout |-> ErrorPrefix \o ParseErrorText \o <<"\n">>, stderr |-> NoText],
          [kind |-> "acorn_missing", returncode |-> 1,
           stdout |-> ErrorPrefix \o AcornMissingText \o <<"\n">>, stderr |-> NoText],
          [kind |-> "node_crash", returncode |-> 1,
           stdout |-> NoText, stderr |-> CrashText \o <<"\n">>]}

NoOutcome == [kind |-> "none", returncode |-> 0, stdout |-> NoText, stderr |-> NoText]

\* The outcomes the parser of a language can have; none is run for a path
\* of unknown language.
ParserOutcomes(lang) ==
    IF lang = "python" THEN PythonOutcomes
    ELSE IF lang \in {"javascript", "typescript"} THEN NodeOutcomes
    ELSE {NoOutcome}

\* s.split(sep, 1)[1] for a sep that occurs in s
AfterFirst(s, sep) ==
    LET at == {i \in 1..(Len(s) - Len(sep) + 1) : SubSeq(s, i, i + Len(sep) - 1) = sep}
    IN SubSeq(s, SetMin(at) + Len(sep), Len(s))

\* _validate_python with only its `except SyntaxError` clause.
_validate_python_no_catch_all(outcome) ==
    CASE outcome.kind = "parsed" ->
           Returned(ValidationResult(TRUE, "python", FALSE, NoText, NoText))
      [] outcome.kind = "syntax_error" ->
           Returned(ValidationResult(FALSE, "python", FALSE, SyntaxErrorText, NoText))
      [] OTHER ->
           Raised(ValidationResult(FALSE, "python", FALSE, NoText, NoText))

\* SyntaxValidator._validate_python
_validate_python(outcome) ==
    CASE outcome.kind = "parsed" ->
           Returned(ValidationResult(TRUE, "python", FALSE, NoText, NoText))
      [] outcome.kind = "syntax_error" ->
           Returned(ValidationResult(FALSE, "python", FALSE, SyntaxErrorText, NoText))
      [] OTHER ->
           Returned(ValidationResult(FALSE, "python", FALSE, ExceptionText, NoText))

\* SyntaxValidator._validate_javascript
_validate_javascript(outcome, lang) ==
    CASE outcome.kind = "timeout" ->
           Returned(ValidationResult(FALSE, lang, FALSE, TimeoutText, NoText))
      [] outcome.kind = "node_missing" ->
           Returned(ValidationResult(TRUE, lang, TRUE, NoText, NodeMissingText))
      [] outcome.kind = "os_error" ->
           Returned(ValidationResult(TRUE, lang, TRUE, NoText, ExceptionText))
      [] OTHER ->
           IF outcome.returncode = 0 /\ Contains(outcome.stdout, ValidText)
           THEN Returned(ValidationResult(TRUE, lang, FALSE, NoText, NoText))
           ELSE LET error_msg == IF outcome.stderr # NoText THEN outcome.stderr
                                 ELSE outcome.stdout
                IN Returned(ValidationResult(FALSE, lang, FALSE,
                      IF Contains(error_msg, ErrorPrefix)
                      THEN strip(AfterFirst(error_msg, ErrorPrefix))
                      ELSE error_msg,
                      NoText))

\* SyntaxValidator.validate
validate(file_path, outcome) ==
    LET lang == _detect_language(file_path) IN
    IF lang = "python" THEN _validate_python(outcome)
    ELSE IF lang \in {"javascript", "typescript"} THEN _validate_javascript(outcome, lang)
    ELSE Returned(ValidationResult(TRUE, "unknown", TRUE, NoText, NoText))

\* The paths of the model: a stem and an ending.
PathStems == {<<>>, <<"a">>, <<"d", ".", "p", "y", "/", "a">>, <<"a", ".", "b">>}
PathEndings ==
    {<<>>, <<".", "p", "y">>, <<".", "P", "Y">>, <<".", "j", "s">>, <<".", "j", "s", "x">>, <<".", "m", "j", "s">>, <<".", "c", "j", "s">>, <<".", "t", "s">>, <<".", "t", "s", "x">>, <<".", "t", "x", "t">>,
     <<".", "p", "y", "c">>, <<".">>, <<"p", "y">>, <<"j", "s">>, <<"t", "s">>, <<".", "J", "S">>}
Paths == {stem \o ending : stem \in PathStems, ending \in PathEndings}

NoValidation == Returned(ValidationResult(FALSE, "none", FALSE, NoText, NoText))

SyntaxFrame == UNCHANGED <<loopVars, applyVars, sandboxVars, depVars, runnerVars,
    laterVars>>

SyntaxInit ==
    /\ spc = "input"
    /\ validated_path \in Paths
    /\ parser_outcome = NoOutcome
    /\ syntax_result = NoValidation
    /\ report = "none"

\* One validate call, of the validate_syntax tool or of the validation
\* checks: the parser's outcome is drawn here.
ValidateSyntax ==
    /\ spc = "input"
    /\ \E outcome \in ParserOutcomes(_detect_language(validated_path)) :
          /\ parser_outcome' = outcome
          /\ syntax_result' = validate(validated_path, outcome)
    /\ spc' = "validated"
    /\ UNCHANGED <<validated_path, report>>
    /\ SyntaxFrame

\* FixGenerator._run_validation_checks, check 1: where the result goes.
ReportSyntaxCheck ==
    /\ spc = "validated"
    /\ ~syntax_result.raised
    /\ report' = IF syntax_result.value.skipped THEN "warning"
                 ELSE IF syntax_result.value.valid THEN "passed"
                 ELSE "failed"
    /\ spc' = "reported"
    /\ UNCHANGED <<validated_path, parser_outcome, syntax_result>>
    /\ SyntaxFrame

SyntaxNext == ValidateSyntax \/ ReportSyntaxCheck

SyntaxIdle ==
    /\ spc = "idle"
    /\ validated_path = <<>>
    /\ parser_outcome = NoOutcome
    /\ syntax_result = NoValidation
    /\ report = "none"

(***************************************************************************)
(* One call of BuildRunner.build or TestRunner.run_tests, step by step:    *)
(* which command is detected for a file set, what is started and in which  *)
(* order, and what the call returns.                                       *)
(***************************************************************************)
PackageJsonPath == <<"p", "a", "c", "k", "a", "g", "e", ".", "j", "s", "o", "n">>
RequirementsPath == <<"r", "e", "q", "u", "i", "r", "e", "m", "e", "n", "t", "s", ".", "t", "x", "t">>
PomPath == <<"p", "o", "m", ".", "x", "m", "l">>
GradlePath == <<"b", "u", "i", "l", "d", ".", "g", "r", "a", "d", "l", "e">>
GoModPath == <<"g", "o", ".", "m", "o", "d">>
CargoPath == <<"C", "a", "r", "g", "o", ".", "t", "o", "m", "l">>

\* str.endswith(suffix)
endswith(s, suffix) ==
    Len(suffix) <= Len(s) /\ SubSeq(s, Len(s) - Len(suffix) + 1, Len(s)) = suffix

\* What json.loads gives for the text of package.json, as far as the
\* detection looks: the text is no JSON, is JSON but no object, or is an
\* object whose "scripts" is missing, null, or an object with these keys.
PackageJsonShapes ==
    {[shape |-> "invalid", scripts |-> {}], [shape |-> "array", scripts |-> {}],
     [shape |-> "scripts_null", scripts |-> {}]}
    \cup {[shape |-> "object", scripts |-> ks] :
            ks \in {{}, {"build"}, {"compile"}, {"test"}, {"build", "test"}}}

NoPackageJson == [shape |-> "absent", scripts |-> {}]

\* The source files a file set can hold besides its manifests.
SourceSets ==
    {{}, {<<"a", ".", "t", "s">>}, {<<"a", ".", "p", "y">>}, {<<"a", ".", "j", "s">>}, {<<"a", ".", "t", "s">>, <<"a", ".", "p", "y">>}, {<<"t", "e", "s", "t", "_", "a", ".", "p", "y">>},
     {<<"a", ".", "p", "y">>, <<"t", "/", "t", "e", "s", "t", "_", "a", ".", "p", "y">>}, {<<"a", ".", "t", "e", "s", "t", ".", "j", "s">>}, {<<"a", ".", "j", "s">>, <<"a", ".", "s", "p", "e", "c", ".", "t", "s">>}}

\* The marker files of the compiled ecosystems a file set can hold.
MarkerSets == {{}, {PomPath}, {GradlePath}, {PomPath, GradlePath}, {GoModPath}, {CargoPath}}

\* The `files` arguments: the paths, and what package.json parses to.
RunnerFileSets ==
    {[paths |-> (IF pkg.shape = "absent" THEN {} ELSE {PackageJsonPath})
                \cup (IF req THEN {RequirementsPath} ELSE {})
                \cup sources \cup markers,
      pkg |-> pkg] :
        pkg \in PackageJsonShapes \cup {NoPackageJson}, req \in BOOLEAN,
        sources \in SourceSets, markers \in MarkerSets}

\* A command line, and the executable the shell needs for it.
Command(text, tool) == [text |-> text, tool |-> tool]
NoCommand == Command("none", "none")
GivenCommand == Command("given", "other")

\* The package.json part of _detect_build_command / _detect_test_command:
\* the script the manifest declares, if any.  json.JSONDecodeError is the
\* only exception it catches.
ScriptCommand(pkg, wanted) ==
    IF pkg.shape = "invalid" THEN Returned(NoCommand)
    ELSE IF pkg.shape \in {"array", "scripts_null"} THEN Raised(NoCommand)
    ELSE IF wanted \cap pkg.scripts = {} THEN Returned(NoCommand)
    ELSE IF "build" \in wanted \cap pkg.scripts THEN Returned(Command("npm run build", "npm"))
    ELSE IF "compile" \in wanted \cap pkg.scripts THEN Returned(Command("npm run compile", "npm"))
    ELSE Returned(Command("npm test", "npm"))

\* BuildRunner._detect_build_command
_detect_build_command(files) ==
    LET script == IF PackageJsonPath \in files.paths
                  THEN ScriptCommand(files.pkg, {"build", "compile"})
                  ELSE Returned(NoCommand)
    IN IF script.raised \/ script.value # NoCommand THEN script
       ELSE IF /\ PackageJsonPath \in files.paths
               /\ \E f \in files.paths : endswith(f, <<".", "t", "s">>)
       THEN Returned(Command("npx tsc --noEmit", "npm"))
       ELSE IF \E f \in files.paths : endswith(f, <<".", "p", "y">>) THEN Returned(NoCommand)
       ELSE IF PomPath \in files.paths THEN Returned(Command("mvn compile", "other"))
       ELSE IF GradlePath \in files.paths THEN Returned(Command("gradle build", "other"))
       ELSE IF GoModPath \in files.paths THEN Returned(Command("go build", "other"))
       ELSE IF CargoPath \in files.paths THEN Returned(Command("cargo build", "other"))
       ELSE Returned(NoCommand)

\* TestRunner._is_test_file: re.match of the four patterns
_is_test_file(file_path) ==
    \/ \E ext \in {<<"j", "s">>, <<"t", "s">>, <<"j", "s", "x">>, <<"t", "s", "x">>} :
          \/ endswith(file_path, <<".", "t", "e", "s", "t", ".">> \o ext)
          \/ endswith(file_path, <<".", "s", "p", "e", "c", ".">> \o ext)
    \/ startswith(file_path, <<"t", "e", "s", "t", "_">>) /\ endswith(file_path, <<".", "p", "y">>) /\ Len(file_path) >= 8
    \/ endswith(file_path, <<"_", "t", "e", "s", "t", ".", "p", "y">>)

\* TestRunner._detect_test_command.  With a package.json without test script
\* and a test file, any() is applied to a bool and raises TypeError.
_detect_test_command(files) ==
    LET script == IF PackageJsonPath \in files.paths
                  THEN ScriptCommand(files.pkg, {"test"})
                  ELSE Returned(NoCommand)
        test_files == {f \in files.paths : _is_test_file(f)}
    IN IF script.raised \/ script.value # NoCommand THEN script
       ELSE IF PackageJsonPath \in files.paths /\ test_files # {}
       THEN Raised(NoCommand)
       ELSE IF (\E f \in files.paths : endswith(f, <<".", "p", "y">>)) /\ test_files # {}
       THEN Returned(Command("pytest", "other"))
       ELSE Returned(NoCommand)

\* The manifest _install_dependencies installs from.
InstallManifest(files) ==
    IF PackageJsonPath \in files.paths THEN "package.json"
    ELSE IF RequirementsPath \in files.paths THEN "requirements.txt"
    ELSE "none"

\* How a started process can end, and the exit code of the ones that exit.
\* 127 is the shell's "command not found".
ProcessEndings == {"exit0", "nonzero", "exit127", "timeout"}
ExitCode(ending) ==
    CASE ending = "exit0" -> 0 [] ending = "nonzero" -> 1 [] ending = "exit127" -> 127

\* What subprocess.run(command, shell=True) can do: the shell cannot be
\* started, or it runs the command line.  When npm was not found for the
\* installation, the shell does not find it either.
CommandOutcomes(cmd, installed) ==
    IF cmd.tool = "npm" /\ installed = "not_found" THEN {"exit127"}
    ELSE ProcessEndings \cup {"exception"}

Spawn(process, ending) == [process |-> process, ending |-> ending]

RunnerFrame == UNCHANGED <<loopVars, applyVars, sandboxVars, depVars, syntaxVars,
    laterVars>>

\* The call after its files have been written.
RunnerInit ==
    /\ rpc = "detect"
    /\ runner_op \in Ops
    /\ runner_files \in RunnerFileSets
    /\ given_command \in BOOLEAN
    /\ command = NoCommand
    /\ install_outcome = "none"
    /\ spawned = <<>>
    /\ run_result = NoCallResult

\* `if not build_command: build_command = self._detect_build_command(files)`
\* and the early return when there is none; the same in run_tests.
RunnerDetect ==
    /\ rpc = "detect"
    /\ \E detected \in {IF given_command THEN Returned(GivenCommand)
                        ELSE IF runner_op = "build"
                        THEN _detect_build_command(runner_files)
                        ELSE _detect_test_command(runner_files)} :
          IF detected.raised
          THEN /\ rpc' = "returned"
               /\ run_result' = ExceptionResult(runner_op)
               /\ UNCHANGED command
          ELSE IF detected.value = NoCommand
          THEN /\ rpc' = "returned"
               /\ run_result' = SkippedResult(runner_op)
               /\ UNCHANGED command
          ELSE /\ rpc' = "install"
               /\ command' = detected.value
               /\ UNCHANGED run_result
    /\ UNCHANGED <<runner_op, runner_files, given_command, install_outcome, spawned>>
    /\ RunnerFrame

\* `install_result = self._install_dependencies(tmpdir, files)` and the
\* return when it did not succeed.
RunnerInstall ==
    /\ rpc = "install"
    /\ \E outcome \in InstallOutcomes(InstallManifest(runner_files)) :
          /\ install_outcome' = outcome
          /\ spawned' = IF outcome \in {"exit0", "nonzero", "timeout"}
                        THEN Append(spawned, Spawn("install", outcome))
                        ELSE spawned
          /\ IF install_success(outcome)
             THEN rpc' = "run" /\ UNCHANGED run_result
             ELSE rpc' = "returned" /\ run_result' = InstallFailedResult(runner_op)
    /\ UNCHANGED <<runner_op, runner_files, given_command, command>>
    /\ RunnerFrame

\* `result = subprocess.run(build_command, shell=True, ...)` and the return
\* of its result, or of the result of the except clauses.
RunnerCommand ==
    /\ rpc = "run"
    /\ \E outcome \in CommandOutcomes(command, install_outcome) :
          /\ spawned' = IF outcome = "exception" THEN spawned
                        ELSE Append(spawned, Spawn("command", outcome))
          /\ run_result' =
                CASE outcome = "exception" -> ExceptionResult(runner_op)
                  [] outcome = "timeout" -> TimeoutResult(runner_op)
                  [] OTHER -> CommandResult(runner_op, ExitCode(outcome))
    /\ rpc' = "returned"
    /\ UNCHANGED <<runner_op, runner_files, given_command, command, install_outcome>>
    /\ RunnerFrame

RunnerNext == RunnerDetect \/ RunnerInstall \/ RunnerCommand

RunnerIdle ==
    /\ rpc = "idle"
    /\ runner_op = "none"
    /\ runner_files = [paths |-> {}, pkg |-> NoPackageJson]
    /\ given_command = FALSE
    /\ command = NoCommand
    /\ install_outcome = "none"
    /\ spawned = <<>>
    /\ run_result = NoCallResult

(***************************************************************************)
(* The package manifest cache of a FixGenerator that serves several        *)
(* generate_fix requests one after the other.                              *)
(***************************************************************************)
\* The manifest file `name` of the repository of request r.
ManifestOf(r, name) == [request |-> r, name |-> name]

\* What dict.get returns for a language that has no entry.
NoCached == [request |-> 0, name |-> "none"]

\* Where a manifest of the request's repository comes from: it is one of the
\* affected files, it is fetched (get_file_content returns), or it does not
\* exist (get_file_content raises, the except clause only logs).
ManifestSources == {"in_file_contents", "fetched", "not_found"}

Repositories == [package_json : ManifestSources, requirements_txt : ManifestSources]

\* __init__: self.package_manifest_cache = {}
EmptyCache == [l \in Languages |-> NoCached]

_load_package_manifest(cache, r, repo) ==
    [l \in Languages |->
        IF l \in {"javascript", "typescript"} /\ repo.package_json # "not_found"
        THEN ManifestOf(r, "package.json")
        ELSE IF l = "python" /\ repo.requirements_txt # "not_found"
        THEN ManifestOf(r, "requirements.txt")
        ELSE cache[l]]

CacheFrame == UNCHANGED <<olderVars, summaryVars, retryVars>>

CacheInit ==
    /\ cpc = "ready"
    /\ request = 0
    /\ package_manifest_cache = EmptyCache
    /\ cache_reads = {}

\* generate_fix up to the tool-use loop: nothing touches the cache before
\* _load_package_manifest, which only ever adds or overwrites entries.
GenerateFixLoadManifest ==
    /\ cpc = "ready"
    /\ request < MaxRequests
    /\ \E repo \in Repositories :
        package_manifest_cache' =
            _load_package_manifest(package_manifest_cache, request + 1, repo)
    /\ request' = request + 1
    /\ cpc' = "tools"
    /\ UNCHANGED cache_reads
    /\ CacheFrame

\* _execute_tool, check_dependencies:
\* package_content = self.package_manifest_cache.get(language)
LookupManifest ==
    /\ cpc = "tools"
    /\ \E l \in Languages :
        cache_reads' = cache_reads \cup
            {[request |-> request, language |-> l,
              manifest |-> package_manifest_cache[l]]}
    /\ UNCHANGED <<cpc, request, package_manifest_cache>>
    /\ CacheFrame

\* generate_fix returns (or raises): the cache is left as it is.
GenerateFixReturns ==
    /\ cpc = "tools"
    /\ cpc' = "ready"
    /\ UNCHANGED <<request, package_manifest_cache, cache_reads>>
    /\ CacheFrame

CacheNext == GenerateFixLoadManifest \/ LookupManifest \/ GenerateFixReturns

CacheIdle ==
    /\ cpc = "idle"
    /\ request = 0
    /\ package_manifest_cache = EmptyCache
    /\ cache_reads = {}

(***************************************************************************)
(* The summary of a test run: TestRunner._parse_test_summary.  A pattern   *)
(* is the list of its items, which stand \s+ apart; an item is a literal   *)
(* or (\d+).                                                               *)
(***************************************************************************)
DigitChars == {"0", "1", "2", "3", "4", "5", "6", "7", "8", "9"}

\* (\d+)
DigitsItem == <<"\\d+">>

NoGroups == [ok |-> FALSE, groups |-> <<>>]

\* The position after the item at p, 0 if it does not stand there.
ItemEnd(s, p, item) ==
    IF item = DigitsItem
    THEN (IF CharAt(s, p, DigitChars) THEN SkipWhile(s, p, DigitChars) ELSE 0)
    ELSE (IF LitAt(s, p, item) THEN p + Len(item) ELSE 0)

\* re.match of the items at position p; e is where the first item ends.
RECURSIVE ItemsFrom(_, _, _, _, _)
ItemsFrom(s, p, e, items, groups) ==
    IF e = 0 THEN NoGroups
    ELSE IF Len(items) = 1
    THEN [ok |-> TRUE,
          groups |-> IF Head(items) = DigitsItem
                     THEN Append(groups, SubSeq(s, p, e - 1)) ELSE groups]
    ELSE IF ~CharAt(s, e, RegexWhitespace) THEN NoGroups
    ELSE ItemsFrom(s, SkipWhile(s, e, RegexWhitespace),
                   ItemEnd(s, SkipWhile(s, e, RegexWhitespace), items[2]),
                   Tail(items),
                   IF Head(items) = DigitsItem
                   THEN Append(groups, SubSeq(s, p, e - 1)) ELSE groups)

ItemsAt(s, p, items) == ItemsFrom(s, p, ItemEnd(s, p, items[1]), items, <<>>)

\* re.search(pattern, s): the match at the leftmost position that has one.
FirstMatch(s, items, hits) ==
    IF hits = {} THEN NoGroups ELSE ItemsAt(s, SetMin(hits), items)

re_search(items, s) ==
    FirstMatch(s, items, {p \in 1..Len(s) : ItemsAt(s, p, items).ok})

TestsLit == <<"T", "e", "s", "t", "s", ":">>
PassedCommaLit == <<"p", "a", "s", "s", "e", "d", ",">>
FailedCommaLit == <<"f", "a", "i", "l", "e", "d", ",">>
TotalLit == <<"t", "o", "t", "a", "l">>
PassedLit == <<"p", "a", "s", "s", "e", "d">>
PassingLit == <<"p", "a", "s", "s", "i", "n", "g">>

jest_pattern == <<TestsLit, DigitsItem, PassedCommaLit, DigitsItem, TotalLit>>
jest_fail_pattern ==
    <<TestsLit, DigitsItem, FailedCommaLit, DigitsItem, PassedCommaLit,
      DigitsItem, TotalLit>>
pytest_pattern == <<DigitsItem, PassedLit>>
pytest_fail_pattern == <<DigitsItem, FailedCommaLit, DigitsItem, PassedLit>>
mocha_pattern == <<DigitsItem, PassingLit>>

\* The patterns in the order the code tries them.
SummaryPatterns ==
    <<jest_pattern, jest_fail_pattern, pytest_pattern, pytest_fail_pattern,
      mocha_pattern>>

\* The f-string returned for a match of the pattern.
FormatSummary(pattern, g) ==
    IF pattern = jest_pattern
    THEN g[1] \o <<" ", "p", "a", "s", "s", "e", "d", ",", " ">> \o g[2] \o <<" ", "t", "o", "t", "a", "l">>
    ELSE IF pattern = jest_fail_pattern
    THEN g[2] \o <<" ", "p", "a", "s", "s", "e", "d", ",", " ">> \o g[1] \o <<" ", "f", "a", "i", "l", "e", "d", ",", " ">> \o g[3] \o <<" ", "t", "o", "t", "a", "l">>
    ELSE IF pattern = pytest_pattern THEN g[1] \o <<" ", "p", "a", "s", "s", "e", "d">>
    ELSE IF pattern = pytest_fail_pattern
    THEN g[2] \o <<" ", "p", "a", "s", "s", "e", "d", ",", " ">> \o g[1] \o <<" ", "f", "a", "i", "l", "e", "d">>
    ELSE g[1] \o <<" ", "p", "a", "s", "s", "i", "n", "g">>

\* The generic patterns and the last resort.
GenericSummary(output) ==
    IF Contains(output, <<"P", "A", "S", "S">>) THEN <<"T", "e", "s", "t", "s", " ", "p", "a", "s", "s", "e", "d">>
    ELSE IF Contains(output, <<"F", "A", "I", "L">>) THEN <<"T", "e", "s", "t", "s", " ", "f", "a", "i", "l", "e", "d">>
    ELSE <<"S", "e", "e", " ", "o", "u", "t", "p", "u", "t", " ", "f", "o", "r", " ", "d", "e", "t", "a", "i", "l", "s">>

RECURSIVE SummaryFrom(_, _)
SummaryFrom(patterns, output) ==
    IF patterns = <<>> THEN GenericSummary(output)
    ELSE IF re_search(Head(patterns), output).ok
    THEN FormatSummary(Head(patterns), re_search(Head(patterns), output).groups)
    ELSE SummaryFrom(Tail(patterns), output)

\* TestRunner._parse_test_summary
_parse_test_summary(output) == SummaryFrom(SummaryPatterns, output)

\* ---- what a test run prints
CountDigits == {"1", "2"}
Counts == UNION {[1..k -> CountDigits] : k \in 1..MaxCountDigits}
NoCount == <<>>

\* The whitespace between "Tests:" and the first count.
Gaps == {<<" ">>, <<" ", " ", " ", " ", " ", " ", " ">>}

Report(kind, failed, passed, total, gap) ==
    [kind |-> kind, failed |-> failed, passed |-> passed, total |-> total,
     gap |-> gap]

\* Jest's and pytest's last line for a run with and without failures,
\* pytest's for a run where every test failed, Mocha's, and output without
\* counts.
TestReports ==
    {Report("jest", NoCount, p, t, g) : p \in Counts, t \in Counts, g \in Gaps}
    \cup {Report("jest_fail", f, p, t, g) :
            f \in Counts, p \in Counts, t \in Counts, g \in Gaps}
    \cup {Report("pytest", NoCount, p, NoCount, <<" ">>) : p \in Counts}
    \cup {Report("pytest_fail", f, p, NoCount, <<" ">>) : f \in Counts, p \in Counts}
    \cup {Report("pytest_all_failed", f, NoCount, NoCount, <<" ">>) : f \in Counts}
    \cup {Report("mocha", NoCount, p, NoCount, <<" ">>) : p \in Counts}
    \cup {Report(k, NoCount, NoCount, NoCount, <<" ">>) : k \in {"PASS", "FAIL", "other"}}

RenderReport(r) ==
    CASE r.kind = "jest" ->
           TestsLit \o r.gap \o r.passed \o <<" ", "p", "a", "s", "s", "e", "d", ",", " ">> \o r.total \o <<" ", "t", "o", "t", "a", "l", "\n">>
      [] r.kind = "jest_fail" ->
           TestsLit \o r.gap \o r.failed \o <<" ", "f", "a", "i", "l", "e", "d", ",", " ">> \o r.passed
           \o <<" ", "p", "a", "s", "s", "e", "d", ",", " ">> \o r.total \o <<" ", "t", "o", "t", "a", "l", "\n">>
      [] r.kind = "pytest" -> <<"=", "=", "=", " ">> \o r.passed \o <<" ", "p", "a", "s", "s", "e", "d", " ", "i", "n", " ", "1", "s", " ", "=", "=", "=">>
      [] r.kind = "pytest_fail" ->
           <<"=", "=", "=", " ">> \o r.failed \o <<" ", "f", "a", "i", "l", "e", "d", ",", " ">> \o r.passed \o <<" ", "p", "a", "s", "s", "e", "d", " ", "i", "n", " ", "1", "s", " ", "=", "=", "=">>
      [] r.kind = "pytest_all_failed" -> <<"=", "=", "=", " ">> \o r.failed \o <<" ", "f", "a", "i", "l", "e", "d", " ", "i", "n", " ", "1", "s", " ", "=", "=", "=">>
      [] r.kind = "mocha" -> <<" ", " ">> \o r.passed \o <<" ", "p", "a", "s", "s", "i", "n", "g", " ", "(", "5", "m", "s", ")">>
      [] r.kind = "PASS" -> <<"P", "A", "S", "S", " ", "a", ".", "t", "e", "s", "t", ".", "j", "s">>
      [] r.kind = "FAIL" -> <<"F", "A", "I", "L", " ", "a", ".", "t", "e", "s", "t", ".", "j", "s">>
      [] OTHER -> <<"e", "r", "r", "o", "r">>

NoReport == Report("none", NoCount, NoCount, NoCount, <<" ">>)

SummaryFrame == UNCHANGED <<olderVars, cacheVars, retryVars>>

SummaryInit ==
    /\ tpc = "input"
    /\ test_report \in TestReports
    /\ summary = <<>>

\* run_tests after the test command has ended:
\* summary = self._parse_test_summary(result.stdout + result.stderr)
ParseTestSummary ==
    /\ tpc = "input"
    /\ summary' = _parse_test_summary(RenderReport(test_report))
    /\ tpc' = "summarized"
    /\ UNCHANGED test_report
    /\ SummaryFrame

SummaryNext == ParseTestSummary

SummaryIdle ==
    /\ tpc = "idle"
    /\ test_report = NoReport
    /\ summary = <<>>

(***************************************************************************)
(* BedrockClient.invoke_model: the retry loop.  Delays are in seconds.     *)
(***************************************************************************)
\* The arguments of a call; the defaults are 5, 2.0 and 60.0.
RetryParams ==
    [max_retries : 0..MaxRetryLimit, initial_delay : {1, 2, 100},
     max_delay : {3, 60}]

\* How one call of bedrock_runtime.invoke_model ends: it returns a body, or
\* raises a ClientError with this code, or raises another exception (also
\* when the body cannot be read or parsed).
CallEndings == {"ok", "ThrottlingException", "ValidationException", "exception"}

\* attempt < max_retries, the mistaken bound for a retry
may_retry_every_attempt(n, max_retries) == n < max_retries

\* `attempt < max_retries - 1`
may_retry(n, max_retries) == n < max_retries - 1

\* min(delay * 2.0, max_delay)
next_delay(d, max_delay) == IF d * 2 < max_delay THEN d * 2 ELSE max_delay

RetryFrame == UNCHANGED <<olderVars, cacheVars, summaryVars>>

\* invoke_model up to the for loop: delay = initial_delay
RetryInit ==
    /\ bpc = "loop"
    /\ retry_params \in RetryParams
    /\ attempt = 0
    /\ delay = retry_params.initial_delay
    /\ call_log = <<>>
    /\ sleeps = <<>>
    /\ raised_error = "none"

\* An iteration whose call of the model returns: return response_body
ModelResponds ==
    /\ bpc = "loop"
    /\ attempt < retry_params.max_retries
    /\ call_log' = Append(call_log, "ok")
    /\ bpc' = "returned"
    /\ UNCHANGED <<retry_params, attempt, delay, sleeps, raised_error>>
    /\ RetryFrame

\* An iteration whose call raises ThrottlingException while a retry is
\* left: time.sleep(delay), the new delay, continue.
ModelThrottledRetry ==
    /\ bpc = "loop"
    /\ attempt < retry_params.max_retries
    /\ may_retry(attempt, retry_params.max_retries)
    /\ call_log' = Append(call_log, "ThrottlingException")
    /\ sleeps' = Append(sleeps, delay)
    /\ delay' = next_delay(delay, retry_params.max_delay)
    /\ attempt' = attempt + 1
    /\ UNCHANGED <<bpc, retry_params, raised_error>>
    /\ RetryFrame

\* An iteration whose call raises and the exception is raised again: any
\* error but throttling, or throttling with no retry left.
ModelErrorRaised ==
    /\ bpc = "loop"
    /\ attempt < retry_params.max_retries
    /\ \E ending \in CallEndings \ {"ok"} :
          /\ ending = "ThrottlingException"
                => ~may_retry(attempt, retry_params.max_retries)
          /\ call_log' = Append(call_log, ending)
          /\ raised_error' = ending
    /\ bpc' = "raised"
    /\ UNCHANGED <<retry_params, attempt, delay, sleeps>>
    /\ RetryFrame

\* The for loop is exhausted: the raise after it.
RetriesExhausted ==
    /\ bpc = "loop"
    /\ attempt >= retry_params.max_retries
    /\ raised_error' = "MaxRetriesExceeded"
    /\ bpc' = "raised"
    /\ UNCHANGED <<retry_params, attempt, delay, call_log, sleeps>>
    /\ RetryFrame

RetryNext ==
    ModelResponds \/ ModelThrottledRetry \/ ModelErrorRaised \/ RetriesExhausted

RetryIdle ==
    /\ bpc = "idle"
    /\ retry_params = [max_retries |-> 0, initial_delay |-> 0, max_delay |-> 0]
    /\ attempt = 0
    /\ delay = 0
    /\ call_log = <<>>
    /\ sleeps = <<>>
    /\ raised_error = "none"

LaterIdle == CacheIdle /\ SummaryIdle /\ RetryIdle
OlderIdle == LoopIdle /\ ApplyIdle /\ SandboxIdle /\ DepIdle /\ SyntaxIdle /\ RunnerIdle

OthersIdle == DepIdle /\ SyntaxIdle /\ RunnerIdle /\ LaterIdle

(***************************************************************************)
(* Specifications.                                                         *)
(***************************************************************************)
Init == LoopInit /\ ApplyIdle /\ SandboxIdle /\ OthersIdle

Next == LoopNext

Spec == Init /\ [][Next]_vars

\* The flow is sequential code: whatever step is enabled is eventually taken
\* (an agent round trip returns or raises, a tool call returns).
FairSpec == Init /\ [][Next]_vars /\ WF_vars(Next)

SandboxInit0 == LoopIdle /\ ApplyIdle /\ SandboxInit /\ OthersIdle
SandboxSpec == SandboxInit0 /\ [][SandboxNext]_vars

ApplyInit == LoopIdle /\ ApplyInputs /\ SandboxIdle /\ OthersIdle
ApplySpec == ApplyInit /\ [][ApplyNext]_vars

\* A validator call is a dependency check or a syntax validation.
ValidatorInit ==
    /\ LoopIdle /\ ApplyIdle /\ SandboxIdle
    /\ \/ DepInit /\ SyntaxIdle
       \/ DepIdle /\ SyntaxInit
    /\ RunnerIdle /\ LaterIdle
ValidatorNext == DepNext \/ SyntaxNext
ValidatorSpec == ValidatorInit /\ [][ValidatorNext]_vars

RunnerInit0 ==
    /\ LoopIdle /\ ApplyIdle /\ SandboxIdle /\ DepIdle /\ SyntaxIdle
    /\ RunnerInit /\ LaterIdle
RunnerSpec == RunnerInit0 /\ [][RunnerNext]_vars

CacheInit0 == OlderIdle /\ CacheInit /\ SummaryIdle /\ RetryIdle
CacheSpec == CacheInit0 /\ [][CacheNext]_vars

SummaryInit0 == OlderIdle /\ CacheIdle /\ SummaryInit /\ RetryIdle
SummarySpec == SummaryInit0 /\ [][SummaryNext]_vars

RetryInit0 == OlderIdle /\ CacheIdle /\ SummaryIdle /\ RetryInit
RetrySpec == RetryInit0 /\ [][RetryNext]_vars

(***************************************************************************)
(* Properties of the patch applicator.                                     *)
(***************************************************************************)
\* result is content with its first occurrence of old replaced by new.
FirstOccurrenceReplaced(content, old, new, res) ==
    \E i \in 0..(Len(content) - Len(old)) :
        /\ SubSeq(content, i + 1, i + Len(old)) = old
        /\ \A j \in 0..(i - 1) : SubSeq(content, j + 1, j + Len(old)) # old
        /\ res = SubSeq(content, 1, i) \o new
                    \o SubSeq(content, i + Len(old) + 1, Len(content))

\* One of the first five lines of text is import/declaration-like.
ImportLikeInFirstFive(text) ==
    \E k \in 1..5 :
        /\ k <= Len(split_lines(text))
        /\ \E prefix \in ImportPrefixes :
               startswith(strip(split_lines(text)[k]), prefix)

SingleEditApplied == apc = "applied" /\ Len(changes) = 1

\* C6 as stated: an anchor that is a verbatim substring of the content has
\* its first occurrence replaced by the replacement text, the rest of the
\* content unchanged.
C6_VerbatimAnchorReplaced ==
    (/\ SingleEditApplied
     /\ current_content.present
     /\ changes[1].old_code # <<>>
     /\ Contains(current_content.text, changes[1].old_code))
    => /\ FirstOccurrenceReplaced(current_content.text, changes[1].old_code,
                                  changes[1].new_code, new_content)
       /\ FirstOccurrenceReplaced(current_content.text, changes[1].old_code,
                                  changes[1].new_code, simulated)

\* C6: for a non-empty content and an edit with a non-empty anchor whose
\* whitespace-trimmed form occurs in the content, applying the edit replaces
\* exactly the first occurrence of the trimmed anchor by the trimmed
\* replacement and leaves the rest of the content, later occurrences
\* included, unchanged; an edit with an empty replacement changes nothing.
C6_TrimmedAnchorReplaced ==
    (/\ SingleEditApplied
     /\ current_content.present
     /\ current_content.text # <<>>
     /\ changes[1].old_code # <<>>
     /\ Contains(current_content.text, strip(changes[1].old_code)))
    => IF changes[1].new_code = <<>>
       THEN new_content = current_content.text
            /\ simulated = current_content.text
       ELSE /\ FirstOccurrenceReplaced(current_content.text,
                    strip(changes[1].old_code), strip(changes[1].new_code),
                    new_content)
            /\ FirstOccurrenceReplaced(current_content.text,
                    strip(changes[1].old_code), strip(changes[1].new_code),
                    simulated)

C6_Witness ==
    /\ SingleEditApplied
    /\ current_content = [present |-> TRUE, text |-> <<"a", " ", "a">>]
    /\ changes[1] = [old_code |-> <<" ", "a">>, new_code |-> <<" ", "b", " ">>]
    /\ new_content = <<"b", " ", "a">>
    /\ simulated = <<"b", " ", "a">>

C8_AbsentContentYieldsLastReplacement ==
    (apc = "applied" /\ ~current_content.present /\ changes # <<>>)
    => new_content = changes[Len(changes)].new_code

C8_Witness ==
    /\ apc = "applied"
    /\ ~current_content.present
    /\ Len(changes) = 2
    /\ changes[1].new_code = <<"b">>
    /\ changes[2].new_code # <<"b">>
    /\ changes[2].new_code # <<>>
    /\ new_content = changes[2].new_code

(***************************************************************************)
(* Claims about the flow and the tool-use loop.                            *)
(***************************************************************************)

\* C1: create_pr_with_fix is invoked only for a fix whose edits went through
\* the validators and whose most recent validation verdict is a pass.
C1_PrOnlyForValidatedFix ==
    pc = "create_pr" => validation = "passed"

\* invoke_model_with_tools is running (between its first line and its return).
InvokeRunning == pc \in {"agent", "tools"}

\* C2 as stated: invoke_model_with_tools returns only at a turn whose
\* stop_reason is not tool_use, or after the iteration ceiling.
C2_ReturnsOnlyOnFinalOrCeiling ==
    pc = "returned" =>
        result.stop_reason # "tool_use" \/ iteration = max_tool_iterations

C2_Safety ==
    /\ iteration <= max_tool_iterations
    /\ (InvokeRunning /\ iteration > 0 => IsToolTurn(result))
    /\ (pc = "returned" =>
          \/ ~IsToolTurn(result)
          \/ /\ iteration = max_tool_iterations
             /\ result.tool_uses[1].id[1] = max_tool_iterations)

\* C2 (amended): invoke_model_with_tools terminates in every behaviour: it
\* raises when an agent call raises, returns at the first turn that is not a
\* tool turn (stop_reason other than tool_use, or no tool_use block), and
\* otherwise returns the output of the last agent call once the ceiling is
\* reached; the agent is never called more than max_tool_iterations times.
C2_Terminates ==
    /\ []C2_Safety
    /\ <>(pc \notin {"generate_fix", "agent", "tools"})

\* Witness of C2: the loop returned because the ceiling was reached.
C2_Witness ==
    pc = "returned" /\ iteration = max_tool_iterations /\ IsToolTurn(result)

\* C3: a result produced by budget exhaustion is not marked as validated.
C3_ExhaustedIsUnvalidated ==
    (pc = "main_check" /\ iteration = max_tool_iterations /\ IsToolTurn(result))
        => ~fix_result.validated_with_tools

\* C4 as stated: after a turn in which a tool invocation failed, the next
\* agent turn takes place.
C4_NextTurnAfterToolError ==
    (last_outcome \in ErrorOutcomes /\ pc = "agent") => ENABLED AgentAnswers

\* C4 (amended): a tool invocation that raises, names an unknown tool or lacks
\* a required input field does not abort the loop: its result is the error
\* envelope with success false and its own id, the remaining invocations of
\* the turn are dispatched, the results are appended, and the next agent turn
\* takes place unless the iteration ceiling has been reached.
C4_ToolErrorsContained ==
    last_outcome \in ErrorOutcomes =>
        /\ pc # "raised"
        /\ tool_results # <<>>
        /\ LET k == Len(tool_results) IN
           /\ tool_results[k].content = ErrorEnvelope
           /\ tool_results[k].content.success = FALSE
           /\ tool_results[k].tool_use_id = result.tool_uses[k].id
        /\ (pc = "tools" /\ Len(tool_results) < Len(result.tool_uses)
              => ENABLED ExecuteTool)
        /\ (pc = "tools" /\ Len(tool_results) = Len(result.tool_uses)
              => ENABLED AppendToolResults)
        /\ (pc = "agent" /\ iteration < max_tool_iterations
              => ENABLED AgentAnswers)

\* Witness of C4: the first invocation of a two-invocation turn failed, the
\* second was dispatched and failed too, and the next agent turn is due.
C4_Witness ==
    /\ pc = "agent"
    /\ iteration < max_tool_iterations
    /\ Len(tool_results) = 2
    /\ tool_results[1].content = ErrorEnvelope
    /\ last_outcome \in ErrorOutcomes

\* C5: whenever the agent is about to be called, every tool invocation of the
\* conversation has a result, and the results appended for the last turn are
\* one per invocation, each with that invocation's id.
C5_ResultsBeforeNextTurn ==
    pc = "agent" =>
        /\ messages.open = {}
        /\ messages.last = "user"
        /\ iteration > 0 =>
             /\ Len(tool_results) = Len(result.tool_uses)
             /\ \A k \in 1..Len(tool_results) :
                    tool_results[k].tool_use_id = result.tool_uses[k].id

\* Witness of C5: a turn with two tool invocations is over.
C5_Witness ==
    pc = "agent" /\ iteration > 0 /\ Len(tool_results) = 2

(***************************************************************************)
(* Properties of the sandbox executor.                                     *)
(***************************************************************************)
CallLive(c) == calls[c].pc \in {"write", "install", "run"}

\* C9: after a build or run_tests call has returned or raised, the sandbox
\* directory created for the call and everything the call wrote no longer
\* exist.
C9_NothingLeftAfterCall ==
    \A c \in CallIds :
        calls[c].pc \in {"returned", "raised"}
        => /\ \A name \in TmpNames : dirs[name] # c
           /\ \A l \in Locations : fs[l] # c

\* C10: concurrent calls each work in their own sandbox directory, and no
\* call's files or outcome are affected by what another call writes: the
\* files a running call has written still hold what it wrote, and its command
\* runs in an environment that no other call has installed into.
C10_CallsAreIsolated ==
    \A c \in CallIds :
        CallLive(c)
        => /\ dirs[calls[c].tmpdir] = c
           /\ \A d \in CallIds \ {c} : calls[d].tmpdir # calls[c].tmpdir
           /\ \A k \in 1..calls[c].nwritten :
                 fs[full_path(calls[c].tmpdir, calls[c].files[k])] = c
           /\ calls[c].pc = "run" => site_packages \in {0, c}

\* The module is built into the language, in the checker's own list.
IsBuiltin(lang, module) ==
    IF lang = "python" THEN module \in PYTHON_BUILTINS
    ELSE module \in JAVASCRIPT_BUILTINS

\* C11: when the dependency check reads a manifest, a module the code imports
\* and the manifest declares is never reported missing, a module the code
\* imports that is neither declared nor built in is reported missing, and
\* nothing but such modules is reported: code that imports only a declared
\* module gets the empty list, code that imports only an undeclared module M
\* gets exactly [M].
C11_MissingIsImportedMinusDeclared ==
    dpc = "checked" =>
        missing.value = {module \in ImportedModules(code_stmts) :
                           /\ ~Declares(package_manifest, module)
                           /\ ~IsBuiltin(language, module)}

\* C12: when no manifest is available for the language, the dependency check
\* reports nothing missing, whatever the code imports.
C12_NoManifestNothingMissing ==
    (dpc \in {"checked", "skipped"} /\ package_manifest.kind = "absent") =>
        /\ tool_result.missing_dependencies = {}
        /\ tool_result.all_available
        /\ missing.value = {}

\* A check without manifest of code that imports a module that is not built in.
C12_Witness ==
    /\ dpc = "skipped"
    /\ package_manifest.kind = "absent"
    /\ \E module \in ImportedModules(code_stmts) : ~IsBuiltin(language, module)

\* The extension of a path: what follows the last dot of its last component,
\* in lower case; empty when that component has no dot.
Extension(path) ==
    LET base == AfterLast(path, "/") IN
    IF Contains(base, <<".">>) THEN lower(AfterLast(base, ".")) ELSE <<>>

SupportedExtensions ==
    PythonExtensions \cup JavaScriptExtensions \cup TypeScriptExtensions

\* C13: for a path whose extension is not a supported one, or that has no
\* extension, validate returns a skipped result that is not a failure, and the
\* validation report gets a warning for it, never a failed check.
C13_UnsupportedExtensionSkipped ==
    (spc \in {"validated", "reported"} /\ Extension(validated_path) \notin SupportedExtensions) =>
        /\ syntax_result.value.skipped
        /\ syntax_result.value.valid
        /\ spc = "reported" => report = "warning"

\* C14: for JavaScript and TypeScript content, a missing parser (no node
\* executable, or acorn not installed) gives a skipped result, a successful
\* parse a passed one, a parse error a failed one with the parser's message
\* without its marker, and a timeout a failed one with the timeout message.
C14_JavaScriptOutcomes ==
    (spc \in {"validated", "reported"} /\ syntax_result.value.language \in {"javascript", "typescript"}) =>
        /\ parser_outcome.kind \in {"node_missing", "acorn_missing"} =>
              syntax_result.value.skipped /\ syntax_result.value.valid
        /\ parser_outcome.kind = "parsed" =>
              syntax_result.value.valid /\ ~syntax_result.value.skipped
        /\ parser_outcome.kind = "parse_error" =>
              /\ ~syntax_result.value.valid /\ ~syntax_result.value.skipped
              /\ syntax_result.value.error = ParseErrorText
        /\ parser_outcome.kind = "timeout" =>
              /\ ~syntax_result.value.valid /\ ~syntax_result.value.skipped
              /\ syntax_result.value.error = TimeoutText

\* C15: validate and check_dependencies give a result back whatever the
\* parser, the node process or the manifest does: no exception leaves them.
C15_ValidatorsNeverRaise ==
    /\ spc \in {"validated", "reported"} =>
          /\ ~syntax_result.raised
          /\ syntax_result.value.language # "none"
    /\ dpc = "checked" => ~missing.raised /\ tool_result.message # "error"

\* ast.parse has raised something that is not a SyntaxError.
C15_Witness ==
    /\ spc = "validated"
    /\ parser_outcome.kind = "exception"
    /\ ~syntax_result.value.valid

\* The file set declares no build or compile script and holds no marker file
\* of a compiled ecosystem.
NoBuildConfiguration(files) ==
    /\ files.pkg.scripts \cap {"build", "compile"} = {}
    /\ files.paths \cap {PomPath, GradlePath, GoModPath, CargoPath} = {}

\* C16: build of a file set without build or compile script and without
\* marker file, with no command passed, returns the skipped result, and no
\* installation is attempted and no process started.
C16_NoBuildConfigurationSkipped ==
    (/\ rpc = "returned" /\ runner_op = "build" /\ ~given_command
     /\ NoBuildConfiguration(runner_files)) =>
        /\ run_result = SkippedResult("build")
        /\ install_outcome = "none"
        /\ spawned = <<>>

\* The processes started so far.
Started(process) == {i \in 1..Len(spawned) : spawned[i].process = process}

\* C17: the command is started at most once, only after the installation
\* step, and nothing is started after it; when the installation exits with a
\* non-zero code or times out the command is not started and the call
\* returns a failure with stage dependency_install.
C17_InstallBeforeCommand ==
    /\ \A i \in Started("command") : i = Len(spawned) /\ install_outcome # "none"
    /\ \A i \in Started("install") : i = 1
    /\ install_outcome \in {"nonzero", "timeout"} =>
          /\ Started("command") = {}
          /\ rpc = "returned"
          /\ ~run_result.success
          /\ run_result.stage = "dependency_install"

\* An installation that timed out.
C17_Witness ==
    /\ rpc = "returned"
    /\ install_outcome = "timeout"
    /\ spawned = <<Spawn("install", "timeout")>>
    /\ run_result.stage = "dependency_install"

\* C18: when the package manager is not found, the call is not aborted and
\* what it returns is not a failure.
C18_MissingPackageManagerNotAFailure ==
    (rpc = "returned" /\ install_outcome = "not_found") =>
        /\ run_result.success
        /\ run_result.error = "none"

\* C19: for a command that was started, the result is a success exactly when
\* the exit code is 0; a result for another exit code carries the code and the
\* captured output; a timeout gives a failure with the timeout message of the
\* stage.
C19_CommandResult ==
    (rpc = "returned" /\ Started("command") # {}) =>
        LET ending == spawned[Len(spawned)].ending IN
        IF ending = "timeout"
        THEN /\ ~run_result.success
             /\ run_result.error = "timeout"
             /\ run_result.timeout =
                   IF runner_op = "build" THEN BuildTimeout ELSE TestTimeout
        ELSE /\ run_result.success <=> ExitCode(ending) = 0
             /\ run_result.exit_code = ExitCode(ending)
             /\ run_result.output = "captured"
             /\ run_result.error = "none"

\* A test command that exited with a non-zero code.
C19_Witness ==
    /\ rpc = "returned"
    /\ runner_op = "run_tests"
    /\ Started("command") # {}
    /\ spawned[Len(spawned)].ending = "nonzero"
    /\ ~run_result.success

\* C20: the simulated file set previews the commit: the file is in the
\* simulated set exactly when create_pr_with_fix has a content to write for
\* it (an empty result is stored by neither), and then with the same content.
C20_SimulationIsFaithfulPreview ==
    apc = "applied" => simulated = new_content

(***************************************************************************)
(* Properties of the manifest cache.                                       *)
(***************************************************************************)
\* C21: the manifest a check_dependencies tool call uses comes from the
\* generate_fix call it belongs to, never from an earlier one.
C21_CacheScopedToRequest ==
    \A rd \in cache_reads :
        rd.manifest # NoCached => rd.manifest.request = rd.request

(***************************************************************************)
(* Properties of the patch applicator: edits that do not match verbatim.   *)
(***************************************************************************)
\* The lines (from 0) whose normalized form contains the first 50 characters
\* of the normalized anchor.
NormalizedHits(text, anchor) ==
    {i \in 0..(Len(split_lines(text)) - 1) :
        Contains(normalize(split_lines(text)[i + 1]), Take(normalize(anchor), 50))}

\* res is text with the block of n lines from line i (from 0) replaced by
\* the lines of new.
BlockReplaced(text, i, n, new, res) ==
    res = join(<<"\n">>,
               SubSeq(split_lines(text), 1, i)
               \o split_lines(new)
               \o SubSeq(split_lines(text), i + n + 1, Len(split_lines(text))))

\* C22 as stated: an anchor that does not occur verbatim but has a
\* normalized hit gets the block of as many lines as the anchor has,
\* starting at the first hit, replaced by the lines of the replacement.
C22_NormalizedBlockReplaced ==
    (/\ SingleEditApplied
     /\ current_content.present
     /\ changes[1].old_code # <<>>
     /\ ~Contains(current_content.text, changes[1].old_code)
     /\ NormalizedHits(current_content.text, changes[1].old_code) # {})
    => BlockReplaced(current_content.text,
           SetMin(NormalizedHits(current_content.text, changes[1].old_code)),
           Len(split_lines(changes[1].old_code)),
           changes[1].new_code, new_content)

\* C22: for a non-empty content and an edit with a non-empty replacement and
\* a non-empty anchor whose trimmed form does not occur verbatim, if some
\* line, whitespace-normalized, contains the first 50 characters of the
\* normalized anchor and the block of as many lines as the trimmed anchor
\* has, starting at the first such line, lies within the content, that block
\* is replaced by the lines of the trimmed replacement and all other lines
\* are unchanged; if the block reaches beyond the last line, the content is
\* unchanged.
C22_NormalizedBlockReplacedIfItFits ==
    (/\ SingleEditApplied
     /\ current_content.present
     /\ current_content.text # <<>>
     /\ changes[1].old_code # <<>>
     /\ changes[1].new_code # <<>>
     /\ ~Contains(current_content.text, strip(changes[1].old_code))
     /\ NormalizedHits(current_content.text, changes[1].old_code) # {})
    => LET first == SetMin(NormalizedHits(current_content.text,
                                          changes[1].old_code))
           n == Len(split_lines(strip(changes[1].old_code)))
       IN IF first + n <= Len(split_lines(current_content.text))
          THEN BlockReplaced(current_content.text, first, n,
                             strip(changes[1].new_code), new_content)
          ELSE new_content = current_content.text

\* A long anchor that differs from the line after the 50th character, in a
\* file of three lines: only the middle line is replaced.
C22_Witness ==
    /\ SingleEditApplied
    /\ current_content =
           [present |-> TRUE,
            text |-> <<"b", "\n">> \o LongLine \o <<"\n", "a", " ", "a">>]
    /\ changes[1] = [old_code |-> LongAnchor, new_code |-> <<"b", "\n", "b">>]
    /\ new_content = <<"b", "\n", "b", "\n", "b", "\n", "a", " ", "a">>

\* The anchor of the edit is found in text neither verbatim (trimmed, as
\* the applicator looks for it) nor by the normalized match.
Unresolvable(text, edit) ==
    /\ edit.old_code # <<>>
    /\ ~Contains(text, strip(edit.old_code))
    /\ NormalizedHits(text, edit.old_code) = {}

\* The content after the edits have been applied to the non-empty text.
Accumulated(text, edits) ==
    IF edits = <<>> THEN text
    ELSE _apply_changes([present |-> TRUE, text |-> text], edits)

WithoutEdit(edits, k) ==
    SubSeq(edits, 1, k - 1) \o SubSeq(edits, k + 1, Len(edits))

LooksLikeWholeFile(text, new) ==
    /\ ImportLikeInFirstFive(strip(new))
    /\ 2 * Len(split_lines(strip(new))) > Len(split_lines(text))

NoAnchorEditApplied ==
    /\ SingleEditApplied
    /\ current_content.present
    /\ current_content.text # <<>>
    /\ changes[1].old_code = <<>>
    /\ changes[1].new_code # <<>>

\* C24: an edit with no anchor replaces the whole content by its
\* replacement text if and only if the replacement has the shape of a
\* complete file for the current content, and changes nothing otherwise; in
\* the applicator of the pull request and in that of the simulation alike.
C24_NoAnchorReplacesIffWholeFile ==
    NoAnchorEditApplied
    => LET expected ==
               IF LooksLikeWholeFile(current_content.text, changes[1].new_code)
               THEN changes[1].new_code
               ELSE current_content.text
       IN new_content = expected /\ simulated = expected

(***************************************************************************)
(* Properties of command detection.                                        *)
(***************************************************************************)
\* The build command of the highest tier whose marker is present in the file
\* set: declared script, type check, build tool of a compiled ecosystem.
BuildCommandByPriority(files) ==
    IF "build" \in files.pkg.scripts THEN Command("npm run build", "npm")
    ELSE IF "compile" \in files.pkg.scripts THEN Command("npm run compile", "npm")
    ELSE IF /\ PackageJsonPath \in files.paths
            /\ \E f \in files.paths : endswith(f, <<".", "t", "s">>)
    THEN Command("npx tsc --noEmit", "npm")
    ELSE IF PomPath \in files.paths THEN Command("mvn compile", "other")
    ELSE IF GradlePath \in files.paths THEN Command("gradle build", "other")
    ELSE IF GoModPath \in files.paths THEN Command("go build", "other")
    ELSE IF CargoPath \in files.paths THEN Command("cargo build", "other")
    ELSE NoCommand

\* C25: once build has detected its command, the command in effect is the
\* one of the highest tier whose marker is present, and the build is
\* skipped exactly when no tier applies.
C25_BuildCommandPriority ==
    (rpc \in {"install", "run", "returned"} /\ runner_op = "build"
     /\ ~given_command)
    => /\ command = BuildCommandByPriority(runner_files)
       /\ BuildCommandByPriority(runner_files) = NoCommand
              => rpc = "returned" /\ run_result = SkippedResult("build")

(***************************************************************************)
(* Properties of the test summary.                                         *)
(***************************************************************************)
\* C26: the summary of an output that reports a failed and a passed count
\* holds both counts, and the summary of an output that reports only a
\* passed count holds that count.
C26_SummaryReflectsCounts ==
    tpc = "summarized" =>
        /\ test_report.kind \in {"jest_fail", "pytest_fail"}
               => /\ Contains(summary, test_report.failed \o <<" ", "f", "a", "i", "l", "e", "d">>)
                  /\ Contains(summary, test_report.passed \o <<" ", "p", "a", "s", "s", "e", "d">>)
        /\ test_report.kind \in {"jest", "pytest"}
               => Contains(summary, test_report.passed \o <<" ", "p", "a", "s", "s", "e", "d">>)

(***************************************************************************)
(* Properties of the sandbox: where files are written.                     *)
(***************************************************************************)
\* C27: every file a build or run_tests call writes lies inside a sandbox
\* directory: nothing is ever written in the directory the sandboxes are
\* created in or at an absolute path.
C27_WritesStayInSandbox ==
    \A l \in Locations \ TmpNames : fs[l] = 0

\* The file set holds a package.json without test script and a file named
\* *.test.* or *.spec.*.
UndeclaredScriptTests(files) ==
    /\ PackageJsonPath \in files.paths
    /\ "test" \notin files.pkg.scripts
    /\ \E f \in files.paths :
          \/ Contains(f, <<".", "t", "e", "s", "t", ".">>)
          \/ Contains(f, <<".", "s", "p", "e", "c", ".">>)

\* C28: for a file set with a package.json without test script and a test
\* file, run_tests detects a test command (Jest, Mocha or npm test) and goes
\* on to run it; detection does not end the call with a failure.
C28_TestFilesGetACommand ==
    (/\ rpc \in {"install", "run", "returned"} /\ runner_op = "run_tests"
     /\ ~given_command /\ UndeclaredScriptTests(runner_files))
    => /\ command.text \in {"npx jest", "npx mocha", "npm test"}
       /\ run_result # ExceptionResult("run_tests") \/ spawned # <<>>

C30_PrCreatedWhenGitHubSucceeds ==
    (pc = "create_pr" /\ fix_result.success)
        ~> (pr_result.called /\ pr_result.success)

====
